---- MODULE Spec2Model ----
(***************************************************************************)
(* Web serving context of the ESP32-CAM firmware (OV5640 variant):        *)
(* webTask / handleWebClient / handleLED / handleCameraSettings and the   *)
(* currentSettings record.  Strings are sequences of one-character        *)
(* strings so that the substring searches, the integer parsing and the    *)
(* integer formatting of the firmware are computed, not assumed.          *)
(***************************************************************************)
EXTENDS Integers, Sequences, FiniteSets, TLC

\* ------------------------------------------------------------------------
\* Bounds of the model
\* ------------------------------------------------------------------------
\* number of web connections accepted in one behaviour
MaxConns == 2
\* clock granularity: milliseconds added by one ClockTick
TickMs == 2000
\* size of the first piece of a request that a client sends in two pieces
FirstChunk == 17
\* largest number of 4096-byte chunks a captured frame takes
FrameChunks == 2
\* web connections accepted in one behaviour while the stream port is served
StreamWebConns == 1
\* frame loop iterations in one behaviour while both ports are served
StreamFrames == 1
\* peers that approach variants 3 and 4 in one behaviour
MaxPeers == 2
\* parts a stream of variants 3 and 4 writes to one peer
VariantFrames == 1

\* ------------------------------------------------------------------------
\* Arduino String operations
\* ------------------------------------------------------------------------
\* an int argument converted to unsigned int: a negative index wraps to a
\* value above every String length (2^32 + i in the firmware; 2^31 + i here,
\* the largest numbers TLC represents, which keeps the order the comparisons
\* of substring depend on)
AsUnsigned(i) == IF i < 0 THEN (2147483647 + i) + 1 ELSE i

\* pat occurs in s at 0-based offset i
OccursAt(s, pat, i) ==
    /\ i + Len(pat) <= Len(s)
    /\ \A k \in 1..Len(pat) : s[i + k] = pat[k]

\* String::indexOf(pat): 0-based offset of the first occurrence, or -1
indexOf(s, pat) ==
    LET hits == {i \in 0..(Len(s) - Len(pat)) : OccursAt(s, pat, i)}
    IN  IF hits = {} THEN -1 ELSE CHOOSE i \in hits : \A j \in hits : i <= j

\* String::substring(left, right): indices are unsigned, swapped when
\* left > right, the result is empty when left is past the end, and right is
\* clipped to the length
substring(s, left, right) ==
    LET l0 == AsUnsigned(left)
        r0 == AsUnsigned(right)
        l  == IF l0 > r0 THEN r0 ELSE l0
        r1 == IF l0 > r0 THEN l0 ELSE r0
        r  == IF r1 > Len(s) THEN Len(s) ELSE r1
    IN  IF l >= Len(s) THEN <<>> ELSE SubSeq(s, l + 1, r)

\* String::substring(from)
substringFrom(s, from) == substring(s, from, Len(s))

Digits == <<"0", "1", "2", "3", "4", "5", "6", "7", "8", "9">>

IsDigit(c) == \E d \in 1..10 : Digits[d] = c

DigitValue(c) == (CHOOSE d \in 1..10 : Digits[d] = c) - 1

IsSpace(c) == c \in {" ", "\t", "\n", "\r"}

\* value of the run of digits that starts at position i (1-based) of s
RECURSIVE DigitRun(_, _, _)
DigitRun(s, i, acc) ==
    IF i > Len(s) \/ ~IsDigit(s[i]) THEN acc
    ELSE DigitRun(s, i + 1, acc * 10 + DigitValue(s[i]))

\* first position of s at or after i that holds no white space
RECURSIVE SkipSpace(_, _)
SkipSpace(s, i) ==
    IF i <= Len(s) /\ IsSpace(s[i]) THEN SkipSpace(s, i + 1) ELSE i

\* toInt yielding -1 for a text in which no number is found
toInt_NoNumberMinusOne(s) ==
    LET i == SkipSpace(s, 1)
        j == IF i <= Len(s) /\ s[i] \in {"-", "+"} THEN i + 1 ELSE i
    IN  IF j > Len(s) \/ ~IsDigit(s[j]) THEN -1
        ELSE IF s[i] = "-" THEN 0 - DigitRun(s, j, 0)
        ELSE DigitRun(s, j, 0)

\* String::toInt(): atol of the text: leading white space, an optional sign,
\* then digits up to the first other character; 0 when there is no digit
toInt(s) ==
    LET i == SkipSpace(s, 1)
    IN  IF i > Len(s) THEN 0
        ELSE IF s[i] = "-" THEN 0 - DigitRun(s, i + 1, 0)
        ELSE IF s[i] = "+" THEN DigitRun(s, i + 1, 0)
        ELSE DigitRun(s, i, 0)

RECURSIVE Decimal(_)
Decimal(n) ==
    IF n < 10 THEN <<Digits[n + 1]>>
    ELSE Append(Decimal(n \div 10), Digits[(n % 10) + 1])

\* String(int): decimal text with a leading minus sign for negatives
String(n) == IF n < 0 THEN <<"-">> \o Decimal(0 - n) ELSE Decimal(n)

\* ------------------------------------------------------------------------
\* Program constants
\* ------------------------------------------------------------------------
timeoutTime == 2000
maxRequestSize == 1024
LOW == 0
HIGH == 1
FRAMESIZE_SVGA == 9
\* streamTask: xDelay and the cooling delay in milliseconds, the iterations
\* between cooling delays, and chunkSize
xDelay == 50
coolingDelay == 500
coolingEvery == 100
chunkSize == 4096
\* focusTask: the delays of its branches and of every pass, in milliseconds
focusedDelay == 10000
focusingDelay == 1000
focusFailedDelay == 10000
focusCheckDelay == 5000
\* ESP32_OV5640_AF.h: firmware status values of the autofocus unit
FW_STATUS_S_FOCUSED == 16
FW_STATUS_S_FOCUSING == 0
\* connectToWiFi: entries of wifiNetworks and polls of one network
wifiNetworkCount == 3
maxAttempts == 20
FRAMESIZE_UXGA == 13

\* strlen of HOMEPAGE_PART1 .. HOMEPAGE_PART4
HomepageLength == <<627, 1496, 7213, 7456>>

RECURSIVE SumLengths(_)
SumLengths(parts) ==
    IF parts = <<>> THEN 0
    ELSE HomepageLength[Head(parts)] + SumLengths(Tail(parts))

\* ------------------------------------------------------------------------
\* CameraSettings
\* ------------------------------------------------------------------------
Fields == {"brightness", "contrast", "saturation", "wb_mode", "whitebal",
           "awb_gain", "exposure_ctrl", "aec2", "ae_level", "aec_value",
           "raw_gma", "lenc", "dcw", "gainceiling", "special_effect",
           "colorbar", "quality", "framesize"}

\* the text of each field name, as it appears in a query and in the JSON keys
FieldText ==
    [f \in Fields |->
        CASE f = "brightness"     -> <<"b","r","i","g","h","t","n","e","s","s">>
          [] f = "contrast"       -> <<"c","o","n","t","r","a","s","t">>
          [] f = "saturation"     -> <<"s","a","t","u","r","a","t","i","o","n">>
          [] f = "wb_mode"        -> <<"w","b","_","m","o","d","e">>
          [] f = "whitebal"       -> <<"w","h","i","t","e","b","a","l">>
          [] f = "awb_gain"       -> <<"a","w","b","_","g","a","i","n">>
          [] f = "exposure_ctrl"  -> <<"e","x","p","o","s","u","r","e","_","c","t","r","l">>
          [] f = "aec2"           -> <<"a","e","c","2">>
          [] f = "ae_level"       -> <<"a","e","_","l","e","v","e","l">>
          [] f = "aec_value"      -> <<"a","e","c","_","v","a","l","u","e">>
          [] f = "raw_gma"        -> <<"r","a","w","_","g","m","a">>
          [] f = "lenc"           -> <<"l","e","n","c">>
          [] f = "dcw"            -> <<"d","c","w">>
          [] f = "gainceiling"    -> <<"g","a","i","n","c","e","i","l","i","n","g">>
          [] f = "special_effect" -> <<"s","p","e","c","i","a","l","_","e","f","f","e","c","t">>
          [] f = "colorbar"       -> <<"c","o","l","o","r","b","a","r">>
          [] f = "quality"        -> <<"q","u","a","l","i","t","y">>
          [] f = "framesize"      -> <<"f","r","a","m","e","s","i","z","e">>]

\* the zero-initialised global struct, before startCamera stores anything
ZeroSettings == [f \in Fields |-> 0]

\* the defaults startCamera stores when the sensor is available
DefaultSettings(frame_size) ==
    [f \in Fields |->
        CASE f = "brightness"     -> 0
          [] f = "contrast"       -> 0
          [] f = "saturation"     -> 0
          [] f = "wb_mode"        -> 0
          [] f = "whitebal"       -> 1
          [] f = "awb_gain"       -> 1
          [] f = "exposure_ctrl"  -> 1
          [] f = "aec2"           -> 1
          [] f = "ae_level"       -> 0
          [] f = "aec_value"      -> 1000
          [] f = "raw_gma"        -> 1
          [] f = "lenc"           -> 1
          [] f = "dcw"            -> 0
          [] f = "gainceiling"    -> 128
          [] f = "special_effect" -> 0
          [] f = "colorbar"       -> 0
          [] f = "quality"        -> 12
          [] f = "framesize"      -> frame_size]

\* startCamera: frame size by PSRAM, defaults stored only with a sensor
startCamera(psram, sensor) ==
    LET frame_size == IF psram THEN FRAMESIZE_UXGA ELSE FRAMESIZE_SVGA
    IN  IF sensor THEN DefaultSettings(frame_size) ELSE ZeroSettings

\* the validation chain of handleCameraSettings, one entry per branch in the
\* order of the code: the name compared (the setter called is s->set_<name>),
\* the accepted interval, and the field of currentSettings stored into
SettingsChain == <<
    [name |-> "brightness",     lo |-> -2, hi |-> 2, store |-> "brightness"],
    [name |-> "contrast",       lo |-> -2, hi |-> 2, store |-> "contrast"],
    [name |-> "wb_mode",        lo |-> 0,  hi |-> 4, store |-> "wb_mode"],
    [name |-> "exposure_ctrl",  lo |-> 0,  hi |-> 1, store |-> "exposure_ctrl"],
    [name |-> "ae_level",       lo |-> -2, hi |-> 2, store |-> "ae_level"],
    [name |-> "whitebal",       lo |-> 0,  hi |-> 1, store |-> "whitebal"],
    [name |-> "special_effect", lo |-> 0,  hi |-> 6,
     store |-> "special_effect"],
    [name |-> "saturation",     lo |-> -2, hi |-> 2, store |-> "saturation"],
    [name |-> "awb_gain",       lo |-> 0,  hi |-> 1, store |-> "awb_gain"],
    [name |-> "aec2",           lo |-> 0,  hi |-> 1, store |-> "aec2"],
    [name |-> "aec_value",      lo |-> 0,  hi |-> 1200, store |-> "aec_value"],
    [name |-> "raw_gma",        lo |-> 0,  hi |-> 1, store |-> "raw_gma"],
    [name |-> "lenc",           lo |-> 0,  hi |-> 1, store |-> "lenc"],
    [name |-> "dcw",            lo |-> 0,  hi |-> 1, store |-> "dcw"],
    [name |-> "gainceiling",    lo |-> 2,  hi |-> 128, store |-> "gainceiling"],
    [name |-> "special_effect", lo |-> 0,  hi |-> 6,
     store |-> "special_effect"],
    [name |-> "colorbar",       lo |-> 0,  hi |-> 1, store |-> "colorbar"],
    [name |-> "framesize",      lo |-> 0,  hi |-> 13, store |-> "framesize"],
    [name |-> "quality",        lo |-> 0,  hi |-> 63, store |-> "quality"] >>

\* the entries the status branch of handleCameraSettings appends to json, in
\* the order of the code, each with the comma it does or does not append
StatusEntries == <<
    [field |-> "brightness",     comma |-> TRUE],
    [field |-> "contrast",       comma |-> TRUE],
    [field |-> "saturation",     comma |-> TRUE],
    [field |-> "wb_mode",        comma |-> TRUE],
    [field |-> "whitebal",       comma |-> TRUE],
    [field |-> "awb_gain",       comma |-> TRUE],
    [field |-> "exposure_ctrl",  comma |-> TRUE],
    [field |-> "aec2",           comma |-> TRUE],
    [field |-> "ae_level",       comma |-> TRUE],
    [field |-> "aec_value",      comma |-> TRUE],
    [field |-> "raw_gma",        comma |-> TRUE],
    [field |-> "lenc",           comma |-> TRUE],
    [field |-> "dcw",            comma |-> TRUE],
    [field |-> "gainceiling",    comma |-> TRUE],
    [field |-> "special_effect", comma |-> TRUE],
    [field |-> "colorbar",       comma |-> FALSE],
    [field |-> "special_effect", comma |-> TRUE],
    [field |-> "colorbar",       comma |-> FALSE] >>

\* "\"<field>\":" + String(value) [+ ","]
JsonEntry(settings, e) ==
    <<"\"">> \o FieldText[e.field] \o <<"\"",":">> \o String(settings[e.field])
        \o (IF e.comma THEN <<",">> ELSE <<>>)

RECURSIVE JsonEntries(_, _)
JsonEntries(settings, entries) ==
    IF entries = <<>> THEN <<>>
    ELSE JsonEntry(settings, Head(entries))
            \o JsonEntries(settings, Tail(entries))

\* the json String built by the status branch
StatusJson(settings) == <<"{">> \o JsonEntries(settings, StatusEntries) \o <<"}">>

\* ------------------------------------------------------------------------
\* Responses written to a client
\* ------------------------------------------------------------------------
\* one HTTP response as the println/printf/print calls of a handler write it:
\* the status line, the header lines present, the body text, and (static
\* page) the HOMEPAGE parts printed after the headers
Response(status, contentType, cors, hasLength, length, body) ==
    [status           |-> status,
     contentType      |-> contentType,
     allowOrigin      |-> cors,
     noCache          |-> cors,
     hasContentLength |-> hasLength,
     contentLength    |-> length,
     connectionClose  |-> TRUE,
     body             |-> body,
     parts            |-> <<>>]

\* number of body bytes written for a response
BodyLength(resp) == Len(resp.body) + SumLengths(resp.parts)

\* ------------------------------------------------------------------------
\* handleLED
\* ------------------------------------------------------------------------
\* the pin level after the request and the ledState reported
handleLED(hdr, pin) ==
    LET on    == indexOf(hdr, <<"G","E","T"," ","/","l","e","d","?","s","t","a","t","e","=","1">>) >= 0
        off   == indexOf(hdr, <<"G","E","T"," ","/","l","e","d","?","s","t","a","t","e","=","0">>) >= 0
        query == indexOf(hdr, <<"G","E","T"," ","/","l","e","d","?","s","t","a","t","e","=","2">>) >= 0
        newPin   == IF on THEN HIGH ELSE IF off THEN LOW ELSE pin
        ledState == IF on THEN 1 ELSE IF off THEN 0
                    ELSE IF query THEN pin ELSE -1
        response == String(ledState)
    IN  [pin  |-> newPin,
         resp |-> Response(200, "text/plain", TRUE, TRUE, Len(response),
                           response)]

\* ------------------------------------------------------------------------
\* handleCameraSettings
\* ------------------------------------------------------------------------
SensorGet(sensor) ==
    [fn |-> "esp_camera_sensor_get", arg |-> 0,
     result |-> IF sensor THEN 1 ELSE 0]

SetterCall(name, value, result) ==
    [fn |-> name, arg |-> value, result |-> result]

\* QueryParam taking what follows the first "&" when there is one
QueryParam_AfterAmpersand(hdr) ==
    LET p == substringFrom(hdr, indexOf(hdr, <<"?">>) + 1)
        q == substring(p, 0, indexOf(p, <<" ","H","T","T","P">>))
    IN  IF indexOf(q, <<"&">>) >= 0
        THEN substringFrom(q, indexOf(q, <<"&">>) + 1)
        ELSE q

\* param: the text between the first "?" of the header and " HTTP"
QueryParam(hdr) ==
    LET p == substringFrom(hdr, indexOf(hdr, <<"?">>) + 1)
    IN  substring(p, 0, indexOf(p, <<" ","H","T","T","P">>))

\* name: the text of param before the first "="
QueryName(param) == substring(param, 0, indexOf(param, <<"=">>))

\* value: the text of param after the first "=", through toInt()
QueryValue(param) == toInt(substringFrom(param, indexOf(param, <<"=">>) + 1))

\* index of the first branch of the chain whose condition holds, 0 if none
ChainMatch(name, value) ==
    LET ok == {i \in 1..Len(SettingsChain) :
                  /\ name = FieldText[SettingsChain[i].name]
                  /\ value >= SettingsChain[i].lo
                  /\ value <= SettingsChain[i].hi}
    IN  IF ok = {} THEN 0 ELSE CHOOSE i \in ok : \A j \in ok : i <= j

\* Commit with the result of the setter ignored
Commit_Always(settings, b, value, result) ==
    [settings EXCEPT ![SettingsChain[b].store] = value]

\* Commit storing into the field of the branch before b
Commit_WrongField(settings, b, value, result) ==
    IF result = 0
    THEN [settings EXCEPT ![SettingsChain[IF b > 1 THEN b - 1 ELSE 2].store]
                              = value]
    ELSE settings

\* Commit taking the value as a step added to the field
Commit_Relative(settings, b, value, result) ==
    IF result = 0
    THEN [settings EXCEPT ![SettingsChain[b].store] = @ + value]
    ELSE settings

\* "if (result == 0) currentSettings.<field> = value;" of branch b
Commit(settings, b, value, result) ==
    IF result = 0
    THEN [settings EXCEPT ![SettingsChain[b].store] = value]
    ELSE settings

\* the response of the update branch: String(result) with its length
UpdateResponse(result) ==
    LET response == String(result)
    IN  Response(200, "text/plain", FALSE, TRUE, Len(response), response)

\* the response when esp_camera_sensor_get() yields no sensor
SensorUnavailableResponse ==
    Response(500, "text/plain", FALSE, FALSE, 0, <<"-","1","\r","\n">>)

\* StatusResponse serializing the boot defaults instead of the record
StatusResponse_BootValues(settings) ==
    LET json == StatusJson(DefaultSettings(FRAMESIZE_SVGA))
    IN  Response(200, "application/json", FALSE, TRUE, Len(json), json)

\* the response of the status branch
StatusResponse(settings) ==
    LET json == StatusJson(settings)
    IN  Response(200, "application/json", FALSE, TRUE, Len(json), json)

\* the update branch once name and value are parsed and the chain has been
\* walked to branch b (0: no branch): the setter of branch b returns rc
ApplyUpdate(settings, sensor, b, value, rc) ==
    IF b = 0 THEN
        [settings |-> settings,
         resp     |-> UpdateResponse(-1),
         calls    |-> <<SensorGet(sensor)>>,
         applied  |-> <<>>]
    ELSE
        [settings |-> Commit(settings, b, value, rc),
         resp     |-> UpdateResponse(rc),
         calls    |-> <<SensorGet(sensor),
                        SetterCall(SettingsChain[b].name, value, rc)>>,
         applied  |-> IF rc = 0 THEN <<SettingsChain[b].name, value>>
                      ELSE <<>>]

\* the handler: hdr is the accumulated header, settings the record before
\* the call, sensor whether esp_camera_sensor_get() yields a sensor, rc the
\* code the sensor setter returns if one is called.  Yields the record after
\* the call, the response written, the Frame Source calls made, and the
\* <<name, value>> of a setter call that returned 0.
handleCameraSettings(hdr, settings, sensor, rc) ==
    IF ~sensor THEN
        [settings |-> settings,
         resp     |-> SensorUnavailableResponse,
         calls    |-> <<SensorGet(sensor)>>,
         applied  |-> <<>>]
    ELSE IF indexOf(hdr, <<"G","E","T"," ","/","c","a","m","e","r","a","/","s","t","a","t","u","s">>) >= 0 THEN
        [settings |-> settings,
         resp     |-> StatusResponse(settings),
         calls    |-> <<SensorGet(sensor)>>,
         applied  |-> <<>>]
    ELSE IF indexOf(hdr, <<"G","E","T"," ","/","c","a","m","e","r","a","?">>) >= 0 THEN
        CHOOSE r \in {ApplyUpdate(settings, sensor, ChainMatch(name, value),
                                  value, rc) :
                          name \in {QueryName(QueryParam(hdr))},
                          value \in {QueryValue(QueryParam(hdr))}} : TRUE
    ELSE ApplyUpdate(settings, sensor, 0, -1, rc)

\* ------------------------------------------------------------------------
\* handleWebClient: the read loop
\* ------------------------------------------------------------------------
\* LoopStep without the size cap
LoopStep_NoCap(st, c) ==
    IF st.exit # "more" THEN st
    ELSE IF c = "\n" THEN
        IF Len(st.currentLine) = 0 THEN
            [header |-> Append(st.header, c), currentLine |-> st.currentLine,
             exit |-> "dispatch"]
        ELSE [header |-> Append(st.header, c), currentLine |-> <<>>,
              exit |-> "more"]
    ELSE IF c # "\r" THEN
        [header |-> Append(st.header, c),
         currentLine |-> Append(st.currentLine, c), exit |-> "more"]
    ELSE [header |-> Append(st.header, c), currentLine |-> st.currentLine,
          exit |-> "more"]

\* one iteration of the read loop with a byte c available: st holds header,
\* currentLine and how the loop has ended ("more": it has not; "abort": the
\* size cap was exceeded; "dispatch": the blank line was read).  Once the loop
\* has ended no further byte is read.
LoopStep(st, c) ==
    IF st.exit # "more" THEN st
    ELSE
        LET h == Append(st.header, c)
        IN  IF Len(h) > maxRequestSize THEN
                [header |-> h, currentLine |-> st.currentLine, exit |-> "abort"]
            ELSE IF c = "\n" THEN
                IF Len(st.currentLine) = 0 THEN
                    [header |-> h, currentLine |-> st.currentLine,
                     exit |-> "dispatch"]
                ELSE [header |-> h, currentLine |-> <<>>, exit |-> "more"]
            ELSE IF c # "\r" THEN
                [header |-> h, currentLine |-> Append(st.currentLine, c),
                 exit |-> "more"]
            ELSE [header |-> h, currentLine |-> st.currentLine, exit |-> "more"]

\* the iterations of the loop over bytes i..j of buf, in order: the first
\* half of the bytes, then the second half from the state the first half
\* left (halves keep the evaluation shallow; the singleton set makes TLC
\* compute the state after the first half once)
RECURSIVE ReadLoop(_, _, _, _)
ReadLoop(st, buf, i, j) ==
    IF i > j THEN st
    ELSE IF i = j THEN LoopStep(st, buf[i])
    ELSE LET m == (i + j) \div 2
         IN  CHOOSE r \in {ReadLoop(half, buf, m + 1, j) :
                              half \in {ReadLoop(st, buf, i, m)}} : TRUE

\* the route handleWebClient takes for a completed header
Route(hdr) ==
    IF indexOf(hdr, <<"G","E","T"," ","/","l","e","d">>) >= 0 THEN "led"
    ELSE IF indexOf(hdr, <<"G","E","T"," ","/","c","a","m","e","r","a">>) >= 0 THEN "camera"
    ELSE IF indexOf(hdr, <<"G","E","T"," ","/">>) >= 0 THEN "page"
    ELSE "none"

\* PageResponse with the last part left out of totalLength
PageResponse_ThreeParts ==
    Response(200, "text/html", FALSE, TRUE, SumLengths(<<1, 2, 3>>), <<>>)

\* the headers of the static page response, before any part is printed
PageResponse ==
    Response(200, "text/html", FALSE, TRUE, SumLengths(<<1, 2, 3, 4>>), <<>>)

\* ------------------------------------------------------------------------
\* Requests the clients of the model send
\* ------------------------------------------------------------------------
\* the interval the data model declares for each field
DeclaredLo(f) ==
    CASE f \in {"brightness", "contrast", "saturation", "ae_level"} -> -2
      [] f = "gainceiling" -> 2
      [] OTHER -> 0

DeclaredHi(f) ==
    CASE f \in {"brightness", "contrast", "saturation", "ae_level"} -> 2
      [] f = "wb_mode"        -> 4
      [] f = "aec_value"      -> 1200
      [] f = "gainceiling"    -> 128
      [] f = "special_effect" -> 6
      [] f = "quality"        -> 63
      [] f = "framesize"      -> 13
      [] OTHER                -> 1

\* the multipliers the data model declares for gainceiling
GainCeilings == {2, 4, 8, 16, 32, 64, 128}

\* v is a value the data model declares valid for field f
InDeclared(f, v) ==
    /\ v >= DeclaredLo(f)
    /\ v <= DeclaredHi(f)
    /\ f = "gainceiling" => v \in GainCeilings

\* the values a client tries for a field: one end of its interval (the one
\* that differs from the boot default), the values just outside the interval,
\* and for gainceiling a value between two multipliers
ProbeValues(f) ==
    {DeclaredLo(f) - 1, DeclaredHi(f) + 1}
        \cup (IF DeclaredHi(f) \in {DefaultSettings(FRAMESIZE_SVGA)[f],
                                    DefaultSettings(FRAMESIZE_UXGA)[f]}
              THEN {DeclaredLo(f)} ELSE {DeclaredHi(f)})
        \cup (IF f = "gainceiling" THEN {3} ELSE {})

Filler(n) == [i \in 1..n |-> "a"]

\* a request: the request line, further header lines, the blank line
Request(method, target, headerLines) ==
    method \o <<" ">> \o target \o <<" ","H","T","T","P","/","1",".","1","\r","\n">> \o headerLines \o <<"\r","\n">>

\* a GET request padded with an X-Pad header line to n bytes in total
PaddedRequest(target, n) ==
    LET bare == Len(Request(<<"G","E","T">>, target, <<"X","-","P","a","d",":"," ","\r","\n">>))
    IN  Request(<<"G","E","T">>, target, <<"X","-","P","a","d",":"," ">> \o Filler(n - bare) \o <<"\r","\n">>)

UpdateRequest(f, v) ==
    Request(<<"G","E","T">>, <<"/","c","a","m","e","r","a","?">> \o FieldText[f] \o <<"=">> \o String(v), <<>>)

StatusRequest == Request(<<"G","E","T">>, <<"/","c","a","m","e","r","a","/","s","t","a","t","u","s">>, <<>>)

UpdateRequests ==
    UNION {{UpdateRequest(f, v) : v \in ProbeValues(f)} : f \in Fields}

OtherRequests ==
    {StatusRequest,
     Request(<<"G","E","T">>, <<"/","c","a","m","e","r","a">>, <<>>),
     Request(<<"G","E","T">>, <<"/","c","a","m","e","r","a","?","b","o","g","u","s","=","3">>, <<>>),
     Request(<<"G","E","T">>, <<"/","c","a","m","e","r","a","?","d","c","w">>, <<>>),
     Request(<<"G","E","T">>, <<"/","c","a","m","e","r","a","?","c","o","n","t","r","a","s","t","=","a","b","c">>, <<>>),
     Request(<<"G","E","T">>, <<"/","c","a","m","e","r","a","?","c","o","n","t","r","a","s","t","=","1","x">>, <<>>),
     Request(<<"G","E","T">>, <<"/","c","a","m","e","r","a","?","d","c","w","=","1","&","l","e","n","c","=","0">>, <<>>),
     Request(<<"G","E","T">>, <<"/","l","e","d","?","s","t","a","t","e","=","0">>, <<>>),
     Request(<<"G","E","T">>, <<"/","l","e","d","?","s","t","a","t","e","=","1">>, <<>>),
     Request(<<"G","E","T">>, <<"/","l","e","d","?","s","t","a","t","e","=","2">>, <<>>),
     Request(<<"G","E","T">>, <<"/","l","e","d">>, <<>>),
     Request(<<"G","E","T">>, <<"/","l","e","d","?","s","t","a","t","e","=","1","0">>, <<>>),
     Request(<<"G","E","T">>, <<"/","l","e","d","?","s","t","a","t","e","=","2","x">>, <<>>),
     Request(<<"G","E","T">>, <<"/">>, <<>>),
     Request(<<"G","E","T">>, <<"/","i","n","d","e","x",".","h","t","m","l">>, <<>>),
     Request(<<"G","E","T">>, <<"/","x">>, <<"X","-","N","o","t","e",":"," ","G","E","T"," ","/","l","e","d","?","s","t","a","t","e","=","1","\r","\n">>),
     Request(<<"P","O","S","T">>, <<"/">>, <<>>),
     Request(<<"P","O","S","T">>, <<"/","l","e","d","?","s","t","a","t","e","=","1">>, <<>>),
     PaddedRequest(<<"/","l","e","d","?","s","t","a","t","e","=","1">>, maxRequestSize),
     PaddedRequest(<<"/","l","e","d","?","s","t","a","t","e","=","1">>, maxRequestSize + 1),
     PaddedRequest(<<"/","c","a","m","e","r","a","?","d","c","w","=","1">>, maxRequestSize + 2)}

Requests == UpdateRequests \cup OtherRequests

\* the requests a client may also send in two pieces, FirstChunk bytes first
SplitRequests ==
    {UpdateRequest("brightness", 2),
     UpdateRequest("quality", 64),
     StatusRequest,
     Request(<<"G","E","T">>, <<"/","l","e","d","?","s","t","a","t","e","=","1">>, <<>>),
     Request(<<"G","E","T">>, <<"/">>, <<>>),
     Request(<<"P","O","S","T">>, <<"/">>, <<>>),
     PaddedRequest(<<"/","l","e","d","?","s","t","a","t","e","=","1">>, maxRequestSize + 1)}

\* the codes a sensor setter may return
SetterResults == {0, -1, 1}

\* ------------------------------------------------------------------------
\* State
\* ------------------------------------------------------------------------
VARIABLES
    sensor,          \* esp_camera_sensor_get() yields a sensor
    currentSettings, \* the CameraSettings record
    ledPin,          \* level of LED_PIN
    webPc,           \* where webTask stands: "accept", "read", "page2".."page4"
    conn,            \* the web connection: "none", "connected", "disconnected"
    conns,           \* web connections accepted so far
    pending,         \* request bytes the client has not sent yet
    inbuf,           \* bytes received and not yet read (client.available())
    header,          \* handleWebClient: header
    currentLine,     \* handleWebClient: currentLine
    elapsed,         \* millis() - previousTime
    out,             \* responses written on the connection, in order
    calls,           \* Frame Source calls made while handling the connection
    route,           \* handler the request was dispatched to, "none" if none
    exit,            \* how handleWebClient ended for the connection
    pre,             \* currentSettings and ledPin when the connection began
    peerGone,        \* the client closed its end during the connection
    applied,         \* per field name: the value the sensor last accepted
                     \* (setter returned 0), as a set; empty when none
    streamPc,        \* where streamTask stands: "poll", "loop", "capture",
                     \* "gotfb", "chunk", "trailer", "return", "delay", "stop"
    streamConn,      \* the stream connection: "none", "connected",
                     \* "disconnected"
    fbHeld,          \* streamTask holds a frame buffer (fb_get .. fb_return)
    remaining,       \* streamTask: remaining
    pos,             \* streamTask: pos, as an offset from fb->buf
    frame,           \* what streamTask wrote for the frame at hand
    streamCounter,   \* streamTask: static streamCounter
    preamble,        \* response preambles written on the stream connection
    paused,          \* milliseconds streamTask slept at the end of the
                     \* last loop iteration
    skipped          \* a loop iteration since the last cooling delay ended
                     \* without a whole frame written

webVars == <<sensor, currentSettings, ledPin, webPc, conn, conns, pending,
             inbuf, header, currentLine, elapsed, out, calls, route, exit, pre,
             peerGone, applied>>

streamVars == <<streamPc, streamConn, fbHeld, remaining, pos, frame,
                streamCounter, preamble, paused, skipped>>

VARIABLES
    setupPc,         \* where setup() stands: "begin", "poll", "check"
                     \* (connectToWiFi), "restart", "camera", "halted",
                     \* "servers", "done"
    network,         \* connectToWiFi: i, counted from 1
    attempt,         \* connectToWiFi: attempt
    link,            \* the network the station is associated with, 0 when
                     \* WiFi.status() is not WL_CONNECTED
    joined,          \* the network connectToWiFi returned on, 0 before
    firstUp,         \* the first network the station associated with since
                     \* the chip came up, 0 when none yet
    cameraOk,        \* esp_camera_init returned ESP_OK
    listening,       \* webServer.begin() and streamServer.begin() were called
    resetReason      \* "poweron", or "sw" after ESP.restart()

setupVars == <<setupPc, network, attempt, link, joined, firstUp, cameraOk,
               listening, resetReason>>

VARIABLES
    up,              \* the peers whose end of the connection is open
    want,            \* what each peer came for: "none" before it connects,
                     \* then "stream", "page", "led" or "silent"
    v3Pc,            \* variant 3, the loop task: "loop", "handle", "stream"
    v3Client,        \* variant 3: the peer handleClient was called with, 0
                     \* when none
    v3Waiting,       \* variant 3: connections server.available() has not
                     \* returned yet, oldest first
    v3Answered,      \* variant 3: the peers a page was written to
    v3Frames,        \* variant 3: parts written by the running streamMJPEG
    v4WebPc,         \* variant 4, webTask: "poll", "handle"
    v4WebClient,     \* variant 4: the peer handleWebClient was called with
    v4WebWaiting,    \* variant 4: connections webServer.available() has not
                     \* returned yet
    v4Answered,      \* variant 4: the peers a response was written to
    v4Led,           \* variant 4: level of LED_PIN
    v4StreamPc,      \* variant 4, streamTask: "poll", "stream"
    v4StreamClient,  \* variant 4: the peer streamTask is writing to
    v4StreamWaiting, \* variant 4: connections streamServer.available() has
                     \* not returned yet
    v4Frames         \* variant 4: parts written to the current peer

variantVars == <<up, want, v3Pc, v3Client, v3Waiting, v3Answered, v3Frames,
                 v4WebPc, v4WebClient, v4WebWaiting, v4Answered, v4Led,
                 v4StreamPc, v4StreamClient, v4StreamWaiting, v4Frames>>

VARIABLES
    focusPc,         \* focusTask: "read" before getFWStatus, "branch" after
    fwStatus,        \* what the last status read reported: the register
                     \* value, or -1 when the read failed
    focusRc,         \* focusTask: rc
    focusLogged,     \* the last pass printed "OV5640 focus check failed"
    focusWaited      \* milliseconds the last pass slept

focusVars == <<focusPc, fwStatus, focusRc, focusLogged, focusWaited>>

restVars == <<variantVars, focusVars>>

\* the state outside the web context and streamTask
otherVars == <<setupVars, restVars>>

vars == <<webVars, streamVars, otherVars>>

\* those who connect to variants 3 and 4
Peers == 1..MaxPeers

\* variants 3 and 4 when setup() has returned: the servers listen, nobody
\* has connected, the LED of variant 4 is low
VariantsInit ==
    /\ up = {}
    /\ want = [p \in Peers |-> "none"]
    /\ v3Pc = "loop"
    /\ v3Client = 0
    /\ v3Waiting = <<>>
    /\ v3Answered = {}
    /\ v3Frames = 0
    /\ v4WebPc = "poll"
    /\ v4WebClient = 0
    /\ v4WebWaiting = <<>>
    /\ v4Answered = {}
    /\ v4Led = LOW
    /\ v4StreamPc = "poll"
    /\ v4StreamClient = 0
    /\ v4StreamWaiting = <<>>
    /\ v4Frames = 0

\* focusTask when setup() has created it
FocusInit ==
    /\ focusPc = "read"
    /\ fwStatus = 0
    /\ focusRc = 0
    /\ focusLogged = FALSE
    /\ focusWaited = 0

RestInit == VariantsInit /\ FocusInit

\* setup() has returned after a power-on in which the first network was
\* connected at the first look: the camera is initialised, both servers
\* listen and the tasks exist
SetupDone ==
    /\ setupPc = "done"
    /\ network = 1
    /\ attempt = 0
    /\ link = 1
    /\ joined = 1
    /\ firstUp = 1
    /\ cameraOk = TRUE
    /\ listening = TRUE
    /\ resetReason = "poweron"

\* streamTask when setup() has created it: about to poll streamServer
StreamInit ==
    /\ streamPc = "poll"
    /\ streamConn = "none"
    /\ fbHeld = FALSE
    /\ remaining = 0
    /\ pos = 0
    /\ frame = <<>>
    /\ streamCounter = 0
    /\ preamble = 0
    /\ paused = 0
    /\ skipped = FALSE


\* the state when setup() has returned: LED low, startCamera done
Init ==
    /\ sensor \in BOOLEAN
    /\ \E psram \in BOOLEAN : currentSettings = startCamera(psram, sensor)
    /\ ledPin = LOW
    /\ webPc = "accept"
    /\ conn = "none"
    /\ conns = 0
    /\ pending = <<>>
    /\ inbuf = <<>>
    /\ header = <<>>
    /\ currentLine = <<>>
    /\ elapsed = 0
    /\ out = <<>>
    /\ calls = <<>>
    /\ route = "none"
    /\ exit = "none"
    /\ pre = [settings |-> currentSettings, led |-> ledPin]
    /\ peerGone = FALSE
    /\ applied = [f \in Fields |-> {}]
    /\ StreamInit
    /\ SetupDone
    /\ RestInit

\* ------------------------------------------------------------------------
\* Clients and the clock
\* ------------------------------------------------------------------------
\* the client, having sent nothing yet on the connection, sends the first n
\* bytes of the request req (all of it if it is no longer than n)
ClientSend(req, n) ==
    /\ webPc = "read"
    /\ conn = "connected"
    /\ pending = <<>> /\ inbuf = <<>> /\ header = <<>>
    /\ LET k == IF n < Len(req) THEN n ELSE Len(req)
       IN  /\ inbuf' = SubSeq(req, 1, k)
           /\ pending' = SubSeq(req, k + 1, Len(req))
    /\ UNCHANGED <<sensor, currentSettings, ledPin, webPc, conn, conns, header,
                   currentLine, elapsed, out, calls, route, exit, pre, peerGone,
                   applied>>

\* the client sends the rest of its request
ClientSendRest ==
    /\ conn = "connected"
    /\ pending # <<>>
    /\ inbuf' = inbuf \o pending
    /\ pending' = <<>>
    /\ UNCHANGED <<sensor, currentSettings, ledPin, webPc, conn, conns, header,
                   currentLine, elapsed, out, calls, route, exit, pre, peerGone,
                   applied>>

\* the client closes its end while the connection is being handled; what it
\* had sent and was not read yet is never read
ClientDisconnect ==
    /\ conn = "connected"
    /\ conn' = "disconnected"
    /\ peerGone' = TRUE
    /\ pending' = <<>>
    /\ inbuf' = <<>>
    /\ UNCHANGED <<sensor, currentSettings, ledPin, webPc, conns, header,
                   currentLine, elapsed, out, calls, route, exit, pre, applied>>

\* time passes while handleWebClient is in its read loop
ClockTick ==
    /\ webPc = "read"
    /\ elapsed <= timeoutTime
    /\ elapsed' = elapsed + TickMs
    /\ UNCHANGED <<sensor, currentSettings, ledPin, webPc, conn, conns, pending,
                   inbuf, header, currentLine, out, calls, route, exit, pre,
                   peerGone, applied>>

\* ------------------------------------------------------------------------
\* webTask and handleWebClient
\* ------------------------------------------------------------------------
\* webServer.available() yields a client; handleWebClient starts
WebAccept ==
    /\ webPc = "accept"
    /\ conns < MaxConns
    /\ webPc' = "read"
    /\ conn' = "connected"
    /\ conns' = conns + 1
    /\ pending' = <<>>
    /\ inbuf' = <<>>
    /\ header' = <<>>
    /\ currentLine' = <<>>
    /\ elapsed' = 0
    /\ out' = <<>>
    /\ calls' = <<>>
    /\ route' = "none"
    /\ exit' = "none"
    /\ pre' = [settings |-> currentSettings, led |-> ledPin]
    /\ peerGone' = FALSE
    /\ UNCHANGED <<sensor, currentSettings, ledPin, applied>>

\* Stop returning to webTask's accept point without client.stop()
Stop_LeaveOpen(how) ==
    /\ webPc' = "accept"
    /\ conn' = conn
    /\ pending' = <<>>
    /\ inbuf' = <<>>
    /\ elapsed' = 0
    /\ exit' = how

\* client.stop() and the return to webTask's accept point; the locals of
\* handleWebClient other than header are dropped
Stop(how) ==
    /\ webPc' = "accept"
    /\ conn' = "none"
    /\ pending' = <<>>
    /\ inbuf' = <<>>
    /\ elapsed' = 0
    /\ exit' = how

\* dispatch of a completed header hdr; rc is the code the sensor setter
\* returns if the settings handler calls one
Dispatch(hdr) ==
    /\ route' = Route(hdr)
    /\ CASE route' = "led" ->
            \E r \in {handleLED(hdr, ledPin)} :
                /\ ledPin' = r.pin
                /\ out' = Append(out, r.resp)
                /\ Stop("response")
                /\ UNCHANGED <<currentSettings, calls, applied>>
         [] route' = "camera" ->
            \E rc \in SetterResults :
            \E r \in {handleCameraSettings(hdr, currentSettings, sensor, rc)} :
                /\ currentSettings' = r.settings
                /\ out' = Append(out, r.resp)
                /\ calls' = calls \o r.calls
                /\ applied' =
                       IF r.applied = <<>> THEN applied
                       ELSE [applied EXCEPT ![r.applied[1]] = {r.applied[2]}]
                /\ Stop("response")
                /\ UNCHANGED ledPin
         [] route' = "page" ->
            /\ out' = Append(out, [PageResponse EXCEPT !.parts = <<1>>])
            /\ webPc' = "page2"
            /\ UNCHANGED <<currentSettings, ledPin, calls, applied, conn,
                           pending, inbuf, elapsed, exit>>
         [] OTHER ->
            /\ Stop("noroute")
            /\ UNCHANGED <<currentSettings, ledPin, out, calls, applied>>

\* WebRead with the timeout test of the loop condition left out
WebRead_NoTimeout ==
    /\ webPc = "read"
    /\ conn = "connected"
    /\ inbuf # <<>>
    /\ \E r \in {ReadLoop([header |-> header, currentLine |-> currentLine,
                           exit |-> "more"], inbuf, 1, Len(inbuf))} :
           /\ header' = r.header
           /\ currentLine' = r.currentLine
           /\ CASE r.exit = "more" ->
                    /\ inbuf' = <<>>
                    /\ UNCHANGED <<currentSettings, ledPin, webPc, conn,
                                   pending, elapsed, out, calls, route, exit,
                                   applied>>
                 [] r.exit = "abort" ->
                    /\ Stop("cap")
                    /\ UNCHANGED <<currentSettings, ledPin, out, calls, route,
                                   applied>>
                 [] r.exit = "dispatch" -> Dispatch(r.header)
    /\ UNCHANGED <<sensor, conns, pre, peerGone>>

\* iterations of the read loop over the bytes available: the connection is
\* up, the timeout has not elapsed, client.available() is nonzero
WebRead ==
    /\ webPc = "read"
    /\ conn = "connected"
    /\ elapsed <= timeoutTime
    /\ inbuf # <<>>
    /\ \E r \in {ReadLoop([header |-> header, currentLine |-> currentLine,
                           exit |-> "more"], inbuf, 1, Len(inbuf))} :
           /\ header' = r.header
           /\ currentLine' = r.currentLine
           /\ CASE r.exit = "more" ->
                    /\ inbuf' = <<>>
                    /\ UNCHANGED <<currentSettings, ledPin, webPc, conn,
                                   pending, elapsed, out, calls, route, exit,
                                   applied>>
                 [] r.exit = "abort" ->
                    /\ Stop("cap")
                    /\ UNCHANGED <<currentSettings, ledPin, out, calls, route,
                                   applied>>
                 [] r.exit = "dispatch" -> Dispatch(r.header)
    /\ UNCHANGED <<sensor, conns, pre, peerGone>>

\* WebLoopExit with a loop condition that tests the connection only
WebLoopExit_OnlyWhenGone ==
    /\ webPc = "read"
    /\ conn # "connected"
    /\ Stop("disconnect")
    /\ UNCHANGED <<sensor, currentSettings, ledPin, conns, header, currentLine,
                   out, calls, route, pre, peerGone, applied>>

\* the loop condition fails: the client is gone or the timeout has elapsed
WebLoopExit ==
    /\ webPc = "read"
    /\ conn # "connected" \/ elapsed > timeoutTime
    /\ Stop(IF conn # "connected" THEN "disconnect" ELSE "timeout")
    /\ UNCHANGED <<sensor, currentSettings, ledPin, conns, header, currentLine,
                   out, calls, route, pre, peerGone, applied>>

\* client.print(HOMEPAGE_PARTk) after a vTaskDelay(1); nothing is written to
\* a client that is gone; after the last part the loop breaks and stops
WebPagePart(k) ==
    /\ webPc = <<"page2", "page3", "page4">>[k - 1]
    /\ out' = IF conn = "connected"
              THEN [out EXCEPT ![Len(out)].parts = Append(@, k)]
              ELSE out
    /\ IF k < 4
       THEN /\ webPc' = <<"page3", "page4">>[k - 1]
            /\ UNCHANGED <<conn, pending, inbuf, elapsed, exit>>
       ELSE Stop("response")
    /\ UNCHANGED <<sensor, currentSettings, ledPin, conns, header, currentLine,
                   calls, route, pre, peerGone, applied>>

\* the web port alone: no client ever connects to the stream port
Next ==
    \/ WebAccept /\ UNCHANGED <<streamVars, otherVars>>
    \/ \E req \in Requests :
           ClientSend(req, Len(req)) /\ UNCHANGED <<streamVars, otherVars>>
    \/ \E req \in SplitRequests :
           ClientSend(req, FirstChunk) /\ UNCHANGED <<streamVars, otherVars>>
    \/ ClientSendRest /\ UNCHANGED <<streamVars, otherVars>>
    \/ ClientDisconnect /\ UNCHANGED <<streamVars, otherVars>>
    \/ ClockTick /\ UNCHANGED <<streamVars, otherVars>>
    \/ WebRead /\ UNCHANGED <<streamVars, otherVars>>
    \/ WebLoopExit /\ UNCHANGED <<streamVars, otherVars>>
    \/ \E k \in 2..4 : WebPagePart(k) /\ UNCHANGED <<streamVars, otherVars>>

Spec == Init /\ [][Next]_vars

\* ------------------------------------------------------------------------
\* streamTask (core 0) beside webTask (core 1)
\* ------------------------------------------------------------------------
\* streamServer.available() yields a client: the response preamble is
\* written, whatever the client does meanwhile, and the frame loop entered.
\* With no client the task delays 100 ms and polls again, which changes
\* nothing.
StreamAccept ==
    /\ streamPc = "poll"
    /\ streamConn = "none"
    /\ streamConn' = "connected"
    /\ preamble' = 1
    /\ streamPc' = "loop"
    /\ frame' = <<>>
    /\ UNCHANGED <<fbHeld, remaining, pos, streamCounter, paused>>
    /\ UNCHANGED skipped

\* the stream client closes its end, at any point of the frame loop
StreamClientDisconnect ==
    /\ streamConn = "connected"
    /\ streamConn' = "disconnected"
    /\ UNCHANGED <<streamPc, fbHeld, remaining, pos, frame, streamCounter,
                   preamble, paused>>
    /\ UNCHANGED skipped

\* StreamLoopTest with the response preamble written in every iteration
StreamLoopTest_PreambleEachTime ==
    /\ streamPc = "loop"
    /\ streamPc' = IF streamConn = "connected" THEN "capture" ELSE "stop"
    /\ preamble' = IF streamConn = "connected" THEN preamble + 1 ELSE preamble
    /\ UNCHANGED <<streamConn, fbHeld, remaining, pos, frame, streamCounter,
                   paused>>
    /\ UNCHANGED skipped

\* "while (client.connected())"
StreamLoopTest ==
    /\ streamPc = "loop"
    /\ streamPc' = IF streamConn = "connected" THEN "capture" ELSE "stop"
    /\ UNCHANGED <<streamConn, fbHeld, remaining, pos, frame, streamCounter,
                   preamble, paused>>
    /\ UNCHANGED skipped

\* StreamCapture leaving the frame loop when no frame buffer is obtained
StreamCapture_StopOnFailure(got) ==
    /\ streamPc = "capture"
    /\ frame' = <<>>
    /\ streamCounter' = (streamCounter + 1) % 256
    /\ IF streamConn = "connected" /\ got
       THEN /\ fbHeld' = TRUE
            /\ streamPc' = "gotfb"
       ELSE /\ fbHeld' = FALSE
            /\ streamPc' = "stop"
    /\ UNCHANGED <<streamConn, remaining, pos, preamble, paused>>
    /\ skipped' = (skipped \/ ~(streamConn = "connected" /\ got))

\* "fb = NULL; streamCounter++; if (client.connected()) fb =
\* esp_camera_fb_get(); if (fb)": got tells whether the capture yields a
\* frame buffer.  streamCounter is a uint8_t.
StreamCapture(got) ==
    /\ streamPc = "capture"
    /\ frame' = <<>>
    /\ streamCounter' = (streamCounter + 1) % 256
    /\ IF streamConn = "connected" /\ got
       THEN /\ fbHeld' = TRUE
            /\ streamPc' = "gotfb"
       ELSE /\ fbHeld' = FALSE
            /\ streamPc' = "delay"
    /\ UNCHANGED <<streamConn, remaining, pos, preamble, paused>>
    /\ skipped' = (skipped \/ ~(streamConn = "connected" /\ got))

\* what client.printf("--frame ... Content-Length: %u ...", fb->len) puts
\* on the connection
PartHeader(len) == [part |-> "head", at |-> 0, n |-> len]

\* what client.write(pos, sendSize) puts on the connection: sendSize bytes
\* of the frame buffer from offset pos - fb->buf on
PartData(offset, sendSize) == [part |-> "data", at |-> offset, n |-> sendSize]

\* what client.println() puts on the connection after the chunk loop
PartEnd(offset) == [part |-> "tail", at |-> offset, n |-> 2]

\* StreamHeader leaving the frame loop when the client is gone
StreamHeader_StopWhenGone(len) ==
    /\ streamPc = "gotfb"
    /\ IF streamConn = "connected"
       THEN /\ frame' = <<PartHeader(len)>>
            /\ remaining' = len
            /\ pos' = 0
            /\ streamPc' = "chunk"
       ELSE /\ streamPc' = "stop"
            /\ UNCHANGED <<frame, remaining, pos>>
    /\ UNCHANGED <<streamConn, fbHeld, streamCounter, preamble, paused>>
    /\ skipped' = (skipped \/ streamConn # "connected")

\* "if (client.connected())" inside "if (fb)": the part header is printed
\* and the chunk loop prepared; len is fb->len, pos is kept as an offset
\* from fb->buf.  A client that is gone gets nothing and the frame buffer
\* is returned next.
StreamHeader(len) ==
    /\ streamPc = "gotfb"
    /\ IF streamConn = "connected"
       THEN /\ frame' = <<PartHeader(len)>>
            /\ remaining' = len
            /\ pos' = 0
            /\ streamPc' = "chunk"
       ELSE /\ streamPc' = "return"
            /\ UNCHANGED <<frame, remaining, pos>>
    /\ UNCHANGED <<streamConn, fbHeld, streamCounter, preamble, paused>>
    /\ skipped' = (skipped \/ streamConn # "connected")

\* sendSize always a whole chunk
SendSize_WholeChunk(left) == chunkSize

\* "size_t sendSize = (remaining < chunkSize) ? remaining : chunkSize;"
SendSize(left) == IF left < chunkSize THEN left ELSE chunkSize

\* "while (remaining > 0 && client.connected())": one chunk is written, or
\* the loop is left
StreamChunk ==
    /\ streamPc = "chunk"
    /\ IF remaining > 0 /\ streamConn = "connected"
       THEN /\ frame' = Append(frame, PartData(pos, SendSize(remaining)))
            /\ pos' = pos + SendSize(remaining)
            /\ remaining' = remaining - SendSize(remaining)
            /\ UNCHANGED streamPc
       ELSE /\ streamPc' = "trailer"
            /\ UNCHANGED <<frame, remaining, pos>>
    /\ UNCHANGED <<streamConn, fbHeld, streamCounter, preamble, paused>>
    /\ UNCHANGED skipped

\* StreamTrailer skipping esp_camera_fb_return when the client is gone
StreamTrailer_SkipReturn ==
    /\ streamPc = "trailer"
    /\ frame' = IF streamConn = "connected" THEN Append(frame, PartEnd(pos))
                ELSE frame
    /\ streamPc' = IF streamConn = "connected" THEN "return" ELSE "delay"
    /\ UNCHANGED <<streamConn, fbHeld, remaining, pos, streamCounter,
                   preamble, paused>>
    /\ skipped' = (skipped \/ streamConn # "connected")

\* "if (client.connected()) client.println();" after the chunk loop
StreamTrailer ==
    /\ streamPc = "trailer"
    /\ frame' = IF streamConn = "connected" THEN Append(frame, PartEnd(pos))
                ELSE frame
    /\ streamPc' = "return"
    /\ UNCHANGED <<streamConn, fbHeld, remaining, pos, streamCounter,
                   preamble, paused>>
    /\ skipped' = (skipped \/ streamConn # "connected")

\* esp_camera_fb_return(fb)
StreamReturn ==
    /\ streamPc = "return"
    /\ fbHeld' = FALSE
    /\ streamPc' = "delay"
    /\ UNCHANGED <<streamConn, remaining, pos, frame, streamCounter,
                   preamble, paused>>
    /\ UNCHANGED skipped

\* StreamDelay clearing the counter only once it has passed 100
StreamDelay_ResetAbove ==
    /\ streamPc = "delay"
    /\ IF streamCounter > coolingEvery
       THEN /\ paused' = xDelay + coolingDelay
            /\ streamCounter' = 0
       ELSE /\ paused' = xDelay
            /\ UNCHANGED streamCounter
    /\ streamPc' = "loop"
    /\ UNCHANGED <<streamConn, fbHeld, remaining, pos, frame, preamble>>
    /\ skipped' = (skipped /\ streamCounter < coolingEvery)

\* "vTaskDelay(xDelay); if (streamCounter >= 100) { vTaskDelay(500 ms);
\* streamCounter = 0; }": paused is the time the task slept, then the loop
\* condition is tested again
StreamDelay ==
    /\ streamPc = "delay"
    /\ IF streamCounter >= coolingEvery
       THEN /\ paused' = xDelay + coolingDelay
            /\ streamCounter' = 0
       ELSE /\ paused' = xDelay
            /\ UNCHANGED streamCounter
    /\ streamPc' = "loop"
    /\ UNCHANGED <<streamConn, fbHeld, remaining, pos, frame, preamble>>
    /\ skipped' = (skipped /\ streamCounter < coolingEvery)

\* StreamStop going back to polling without client.stop()
StreamStop_KeepClient ==
    /\ streamPc = "stop"
    /\ streamPc' = "poll"
    /\ UNCHANGED <<streamConn, fbHeld, remaining, pos, frame, streamCounter,
                   preamble, paused>>
    /\ UNCHANGED skipped

\* client.stop() after the frame loop, then back to polling
StreamStop ==
    /\ streamPc = "stop"
    /\ streamConn' = "none"
    /\ streamPc' = "poll"
    /\ UNCHANGED <<fbHeld, remaining, pos, frame, streamCounter, preamble,
                   paused>>
    /\ UNCHANGED skipped

\* fb->len of the frames captured: one byte into a chunk and a whole number
\* of chunks, for each number of chunks up to FrameChunks
FrameLengths ==
    UNION {{(c - 1) * chunkSize + 1, c * chunkSize} : c \in 1..FrameChunks}

\* the steps streamTask takes once it has a client
StreamStep ==
    \/ StreamLoopTest
    \/ \E got \in BOOLEAN : StreamCapture(got)
    \/ \E len \in FrameLengths : StreamHeader(len)
    \/ StreamChunk
    \/ StreamTrailer
    \/ StreamReturn
    \/ StreamDelay
    \/ StreamStop

\* StreamStep with the frame loop entered StreamFrames times at most
StreamStepBounded ==
    \/ (streamCounter < StreamFrames \/ streamConn # "connected")
           /\ StreamLoopTest
    \/ \E got \in BOOLEAN : StreamCapture(got)
    \/ \E len \in FrameLengths : StreamHeader(len)
    \/ StreamChunk
    \/ StreamTrailer
    \/ StreamReturn
    \/ StreamDelay
    \/ StreamStop

\* the steps handleWebClient takes without a byte from the client: leaving
\* the read loop and printing the parts of the page.  (Reading is a step of
\* its own, WebRead; a header is dispatched in the step that reads its last
\* byte, so nothing below depends on when bytes are read.)
WebStep == WebLoopExit \/ \E k \in 2..4 : WebPagePart(k)

\* requests sent to the web port while the stream port is served
StreamWebRequests ==
    {UpdateRequest("quality", 63),
     Request(<<"G","E","T">>, <<"/","l","e","d","?","s","t","a","t","e","=","1">>, <<>>),
     Request(<<"G","E","T">>, <<"/">>, <<>>),
     Request(<<"P","O","S","T">>, <<"/">>, <<>>)}

\* the web port alone, with webTask scheduled again and again on core 1 and
\* millis() advancing: a step of handleWebClient that needs no byte from
\* the client is eventually taken, and time passes in the read loop.
\* Clients are under no obligation.
SpecWebFair ==
    /\ Init
    /\ [][Next]_vars
    /\ WF_vars(WebStep /\ UNCHANGED <<streamVars, otherVars>>)
    /\ WF_vars(ClockTick /\ UNCHANGED <<streamVars, otherVars>>)

\* NextStream with the capture step of streamTask storing a frame size into
\* currentSettings
NextStream_CaptureStoresFrameSize ==
    \/ (conns < StreamWebConns /\ WebAccept) /\ UNCHANGED <<streamVars, otherVars>>
    \/ \E req \in StreamWebRequests :
           ClientSend(req, Len(req)) /\ UNCHANGED <<streamVars, otherVars>>
    \/ ClientDisconnect /\ UNCHANGED <<streamVars, otherVars>>
    \/ ClockTick /\ UNCHANGED <<streamVars, otherVars>>
    \/ WebRead /\ UNCHANGED <<streamVars, otherVars>>
    \/ WebLoopExit /\ UNCHANGED <<streamVars, otherVars>>
    \/ \E k \in 2..4 : WebPagePart(k) /\ UNCHANGED <<streamVars, otherVars>>
    \/ StreamAccept /\ UNCHANGED <<webVars, otherVars>>
    \/ StreamClientDisconnect /\ UNCHANGED <<webVars, otherVars>>
    \/ (streamCounter < StreamFrames \/ streamConn # "connected")
           /\ StreamLoopTest /\ UNCHANGED <<webVars, otherVars>>
    \/ \E got \in BOOLEAN :
           /\ StreamCapture(got)
           /\ currentSettings' = [currentSettings EXCEPT !["framesize"] = 0]
           /\ UNCHANGED <<sensor, ledPin, webPc, conn, conns, pending, inbuf,
                          header, currentLine, elapsed, out, calls, route,
                          exit, pre, peerGone, applied,
                          otherVars>>
    \/ \E len \in FrameLengths : StreamHeader(len) /\ UNCHANGED <<webVars, otherVars>>
    \/ StreamChunk /\ UNCHANGED <<webVars, otherVars>>
    \/ StreamTrailer /\ UNCHANGED <<webVars, otherVars>>
    \/ StreamReturn /\ UNCHANGED <<webVars, otherVars>>
    \/ StreamDelay /\ UNCHANGED <<webVars, otherVars>>
    \/ StreamStop /\ UNCHANGED <<webVars, otherVars>>

\* both ports served: webTask and streamTask run on their own cores
NextStream ==
    \/ (conns < StreamWebConns /\ WebAccept) /\ UNCHANGED <<streamVars, otherVars>>
    \/ \E req \in StreamWebRequests :
           ClientSend(req, Len(req)) /\ UNCHANGED <<streamVars, otherVars>>
    \/ ClientDisconnect /\ UNCHANGED <<streamVars, otherVars>>
    \/ ClockTick /\ UNCHANGED <<streamVars, otherVars>>
    \/ WebRead /\ UNCHANGED <<streamVars, otherVars>>
    \/ WebLoopExit /\ UNCHANGED <<streamVars, otherVars>>
    \/ \E k \in 2..4 : WebPagePart(k) /\ UNCHANGED <<streamVars, otherVars>>
    \/ StreamAccept /\ UNCHANGED <<webVars, otherVars>>
    \/ StreamClientDisconnect /\ UNCHANGED <<webVars, otherVars>>
    \/ (streamCounter < StreamFrames \/ streamConn # "connected")
           /\ StreamLoopTest /\ UNCHANGED <<webVars, otherVars>>
    \/ \E got \in BOOLEAN : StreamCapture(got) /\ UNCHANGED <<webVars, otherVars>>
    \/ \E len \in FrameLengths : StreamHeader(len) /\ UNCHANGED <<webVars, otherVars>>
    \/ StreamChunk /\ UNCHANGED <<webVars, otherVars>>
    \/ StreamTrailer /\ UNCHANGED <<webVars, otherVars>>
    \/ StreamReturn /\ UNCHANGED <<webVars, otherVars>>
    \/ StreamDelay /\ UNCHANGED <<webVars, otherVars>>
    \/ StreamStop /\ UNCHANGED <<webVars, otherVars>>

\* each task is scheduled again and again on its core: a step it can take
\* is eventually taken.  Clients and the clock are under no such obligation.
SpecStream ==
    /\ Init
    /\ [][NextStream]_vars
    /\ WF_vars(StreamStepBounded /\ UNCHANGED <<webVars, otherVars>>)
    /\ WF_vars(WebStep /\ UNCHANGED <<streamVars, otherVars>>)

\* the stream port alone: streamTask and its client
NextFrames ==
    \/ StreamAccept /\ UNCHANGED <<webVars, otherVars>>
    \/ StreamClientDisconnect /\ UNCHANGED <<webVars, otherVars>>
    \/ StreamLoopTest /\ UNCHANGED <<webVars, otherVars>>
    \/ \E got \in BOOLEAN : StreamCapture(got) /\ UNCHANGED <<webVars, otherVars>>
    \/ \E len \in FrameLengths : StreamHeader(len) /\ UNCHANGED <<webVars, otherVars>>
    \/ StreamChunk /\ UNCHANGED <<webVars, otherVars>>
    \/ StreamTrailer /\ UNCHANGED <<webVars, otherVars>>
    \/ StreamReturn /\ UNCHANGED <<webVars, otherVars>>
    \/ StreamDelay /\ UNCHANGED <<webVars, otherVars>>
    \/ StreamStop /\ UNCHANGED <<webVars, otherVars>>

\* streamTask is the only task of priority 2 on core 0: a step it can take
\* is eventually taken.  Its client is under no such obligation.
SpecFrames ==
    /\ Init
    /\ [][NextFrames]_vars
    /\ WF_vars(StreamStep /\ UNCHANGED <<webVars, otherVars>>)

\* ------------------------------------------------------------------------
\* setup(): connectToWiFi, startCamera, the servers and the tasks
\* ------------------------------------------------------------------------
\* the station associates with the network WiFi.begin() was last given
LinkUp ==
    /\ setupPc \in {"poll", "check"}
    /\ link = 0
    /\ link' = network
    /\ firstUp' = IF firstUp = 0 THEN network ELSE firstUp
    /\ UNCHANGED <<setupPc, network, attempt, joined, cameraOk, listening,
                   resetReason>>

\* the association is lost
LinkDown ==
    /\ setupPc \in {"poll", "check"}
    /\ link # 0
    /\ link' = 0
    /\ UNCHANGED <<setupPc, network, attempt, joined, cameraOk, listening,
                   resetReason>>
    /\ UNCHANGED firstUp

\* "for (size_t i = 0; i < sizeof(wifiNetworks) / sizeof(wifiNetworks[0]);
\* i++)": with a network left, WiFi.begin(ssid, password) and attempt = 0;
\* with none left, ESP.restart()
WifiBegin ==
    /\ setupPc = "begin"
    /\ IF network <= wifiNetworkCount
       THEN /\ link' = 0
            /\ attempt' = 0
            /\ setupPc' = "poll"
       ELSE /\ setupPc' = "restart"
            /\ UNCHANGED <<link, attempt>>
    /\ UNCHANGED <<network, joined, cameraOk, listening, resetReason>>
    /\ UNCHANGED firstUp

\* "while (WiFi.status() != WL_CONNECTED && attempt < 20) { delay(500);
\* attempt++; }": one turn of the loop, or leaving it
WifiPoll ==
    /\ setupPc = "poll"
    /\ IF link = 0 /\ attempt < maxAttempts
       THEN /\ attempt' = attempt + 1
            /\ UNCHANGED setupPc
       ELSE /\ setupPc' = "check"
            /\ UNCHANGED attempt
    /\ UNCHANGED <<network, link, joined, cameraOk, listening, resetReason>>
    /\ UNCHANGED firstUp

\* WifiCheck returning from connectToWiFi whatever WiFi.status() is
WifiCheck_ReturnAnyway ==
    /\ setupPc = "check"
    /\ joined' = network
    /\ setupPc' = "camera"
    /\ UNCHANGED <<network, attempt, link, cameraOk, listening, resetReason>>
    /\ UNCHANGED firstUp

\* "if (WiFi.status() == WL_CONNECTED) { ... return; }", else on to the
\* next network
WifiCheck ==
    /\ setupPc = "check"
    /\ IF link # 0
       THEN /\ joined' = network
            /\ setupPc' = "camera"
            /\ UNCHANGED network
       ELSE /\ network' = network + 1
            /\ setupPc' = "begin"
            /\ UNCHANGED joined
    /\ UNCHANGED <<attempt, link, cameraOk, listening, resetReason>>
    /\ UNCHANGED firstUp

\* the chip comes up again after ESP.restart(): setup() starts over
Reboot ==
    /\ setupPc = "restart"
    /\ setupPc' = "begin"
    /\ network' = 1
    /\ attempt' = 0
    /\ link' = 0
    /\ joined' = 0
    /\ firstUp' = 0
    /\ resetReason' = "sw"
    /\ UNCHANGED <<cameraOk, listening>>

\* StartCamera going on when esp_camera_init fails
StartCamera_GoOn(ok, psram) ==
    /\ setupPc = "camera"
    /\ cameraOk' = ok
    /\ currentSettings' = startCamera(psram, sensor)
    /\ pre' = [settings |-> currentSettings', led |-> ledPin]
    /\ setupPc' = "servers"
    /\ UNCHANGED <<network, attempt, link, joined, listening, resetReason>>
    /\ UNCHANGED firstUp

\* startCamera(): ok tells whether esp_camera_init returns ESP_OK; if not,
\* "while (true);"
StartCamera(ok, psram) ==
    /\ setupPc = "camera"
    /\ cameraOk' = ok
    /\ IF ok
       THEN /\ currentSettings' = startCamera(psram, sensor)
            /\ pre' = [settings |-> currentSettings', led |-> ledPin]
            /\ setupPc' = "servers"
       ELSE /\ setupPc' = "halted"
            /\ UNCHANGED <<currentSettings, pre>>
    /\ UNCHANGED <<network, attempt, link, joined, listening, resetReason>>
    /\ UNCHANGED firstUp

\* webServer.begin(); streamServer.begin(); the three xTaskCreatePinnedToCore
SetupServe ==
    /\ setupPc = "servers"
    /\ listening' = TRUE
    /\ setupPc' = "done"
    /\ UNCHANGED <<network, attempt, link, joined, cameraOk, resetReason>>
    /\ UNCHANGED firstUp

\* the steps setup() takes by itself
SetupStep ==
    \/ WifiBegin
    \/ WifiPoll
    \/ WifiCheck
    \/ Reboot

\* power-on, at the call of connectToWiFi: the LED is set low, nothing else
\* has run: currentSettings is the zero-initialised global
InitBoot ==
    /\ sensor \in BOOLEAN
    /\ currentSettings = ZeroSettings
    /\ ledPin = LOW
    /\ webPc = "accept"
    /\ conn = "none"
    /\ conns = 0
    /\ pending = <<>>
    /\ inbuf = <<>>
    /\ header = <<>>
    /\ currentLine = <<>>
    /\ elapsed = 0
    /\ out = <<>>
    /\ calls = <<>>
    /\ route = "none"
    /\ exit = "none"
    /\ pre = [settings |-> ZeroSettings, led |-> LOW]
    /\ peerGone = FALSE
    /\ applied = [f \in Fields |-> {}]
    /\ StreamInit
    /\ setupPc = "begin"
    /\ network = 1
    /\ attempt = 0
    /\ link = 0
    /\ joined = 0
    /\ firstUp = 0
    /\ cameraOk = FALSE
    /\ listening = FALSE
    /\ resetReason = "poweron"
    /\ RestInit

\* the device from power-on: setup(), and once the tasks exist the accepting
\* and closing of connections on both ports
NextBoot ==
    \/ LinkUp /\ UNCHANGED <<webVars, streamVars, restVars>>
    \/ LinkDown /\ UNCHANGED <<webVars, streamVars, restVars>>
    \/ WifiBegin /\ UNCHANGED <<webVars, streamVars, restVars>>
    \/ WifiPoll /\ UNCHANGED <<webVars, streamVars, restVars>>
    \/ WifiCheck /\ UNCHANGED <<webVars, streamVars, restVars>>
    \/ Reboot /\ UNCHANGED <<webVars, streamVars, restVars>>
    \/ \E ok \in BOOLEAN : \E psram \in BOOLEAN :
           /\ StartCamera(ok, psram)
           /\ UNCHANGED <<sensor, ledPin, webPc, conn, conns, pending, inbuf,
                          header, currentLine, elapsed, out, calls, route,
                          exit, peerGone, applied, streamVars,
                          restVars>>
    \/ SetupServe /\ UNCHANGED <<webVars, streamVars, restVars>>
    \/ (setupPc = "done" /\ WebAccept) /\ UNCHANGED <<streamVars, otherVars>>
    \/ (setupPc = "done" /\ ClientDisconnect)
           /\ UNCHANGED <<streamVars, otherVars>>
    \/ (setupPc = "done" /\ WebLoopExit) /\ UNCHANGED <<streamVars, otherVars>>
    \/ (setupPc = "done" /\ StreamAccept) /\ UNCHANGED <<webVars, otherVars>>
    \/ (setupPc = "done" /\ StreamClientDisconnect)
           /\ UNCHANGED <<webVars, otherVars>>
    \/ (setupPc = "done" /\ streamConn = "disconnected" /\ StreamLoopTest)
           /\ UNCHANGED <<webVars, otherVars>>
    \/ (setupPc = "done" /\ StreamStop) /\ UNCHANGED <<webVars, otherVars>>

\* setup() runs in the loop task, which is scheduled again and again: a step
\* of connectToWiFi that can be taken is eventually taken, and the chip
\* comes up after a restart.  The link is under no obligation.
SpecBoot ==
    /\ InitBoot
    /\ [][NextBoot]_vars
    /\ WF_vars(SetupStep /\ UNCHANGED <<webVars, streamVars, restVars>>)

\* ------------------------------------------------------------------------
\* Variants 3 and 4 of the sketch, approached by the same peers
\* ------------------------------------------------------------------------
\* what a peer sends once connected; a silent peer sends nothing.  The page
\* of variant 3 loads the stream from /stream on port 80, the page of
\* variant 4 from port 81
RequestOf(w) ==
    IF w = "stream" THEN <<"G","E","T"," ","/","s","t","r","e","a","m"," ","H","T","T","P","/","1",".","1","\r","\n","\r","\n">>
    ELSE IF w = "page" THEN <<"G","E","T"," ","/"," ","H","T","T","P","/","1",".","1","\r","\n","\r","\n">>
    ELSE IF w = "led" THEN <<"G","E","T"," ","/","l","e","d","?","s","t","a","t","e","=","1"," ","H","T","T","P","/","1",".","1","\r","\n","\r","\n">>
    ELSE <<>>

\* a peer connects: to the one server of variant 3, and in variant 4 to the
\* stream server when it came for the stream, to the web server otherwise
PeerConnect(p, w) ==
    /\ want[p] = "none"
    /\ want' = [want EXCEPT ![p] = w]
    /\ up' = up \cup {p}
    /\ v3Waiting' = Append(v3Waiting, p)
    /\ IF w = "stream"
       THEN /\ v4StreamWaiting' = Append(v4StreamWaiting, p)
            /\ UNCHANGED v4WebWaiting
       ELSE /\ v4WebWaiting' = Append(v4WebWaiting, p)
            /\ UNCHANGED v4StreamWaiting
    /\ UNCHANGED <<v3Pc, v3Client, v3Answered, v3Frames, v4WebPc,
                   v4WebClient, v4Answered, v4Led, v4StreamPc,
                   v4StreamClient, v4Frames>>

\* a peer closes its end
PeerDisconnect(p) ==
    /\ p \in up
    /\ up' = up \ {p}
    /\ UNCHANGED <<want, v3Pc, v3Client, v3Waiting, v3Answered, v3Frames,
                   v4WebPc, v4WebClient, v4WebWaiting, v4Answered, v4Led,
                   v4StreamPc, v4StreamClient, v4StreamWaiting, v4Frames>>

v3Vars == <<v3Pc, v3Client, v3Waiting, v3Answered, v3Frames>>

v4WebVars == <<v4WebPc, v4WebClient, v4WebWaiting, v4Answered, v4Led>>

v4StreamVars == <<v4StreamPc, v4StreamClient, v4StreamWaiting, v4Frames>>

\* variant 3, loop(): server.available() returned a client, and handleClient
\* is called with it
V3Loop ==
    /\ v3Pc = "loop"
    /\ v3Waiting # <<>>
    /\ v3Client' = Head(v3Waiting)
    /\ v3Waiting' = Tail(v3Waiting)
    /\ v3Pc' = "handle"
    /\ UNCHANGED <<v3Answered, v3Frames>>

\* variant 3, handleClient: the header read up to the first line feed
V3FirstLine(req) ==
    IF indexOf(req, <<"\n">>) >= 0
    THEN substring(req, 0, indexOf(req, <<"\n">>) + 1)
    ELSE <<>>

\* variant 3, handleClient: what the first line is taken for
V3Route(line) ==
    IF line = <<>> THEN "none"
    ELSE IF indexOf(line, <<"G","E","T"," ","/","s","t","r","e","a","m">>) >= 0 THEN "stream"
    ELSE IF indexOf(line, <<"G","E","T"," ","/">>) >= 0 THEN "page"
    ELSE "none"

\* variant 3, handleClient up to its return or to the call of streamMJPEG:
\* the loop ends without a line when the peer is gone or after timeoutTime;
\* a page is written and the connection stopped; for /stream the preamble is
\* written and streamMJPEG's loop entered
V3HandleClient ==
    /\ v3Pc = "handle"
    /\ LET r == IF v3Client \in up
                THEN V3Route(V3FirstLine(RequestOf(want[v3Client])))
                ELSE "none"
       IN  IF r = "stream"
           THEN /\ v3Pc' = "stream"
                /\ v3Frames' = 0
                /\ UNCHANGED <<v3Client, v3Answered>>
           ELSE /\ v3Answered' = IF r = "page"
                                 THEN v3Answered \cup {v3Client}
                                 ELSE v3Answered
                /\ v3Client' = 0
                /\ v3Pc' = "loop"
                /\ UNCHANGED v3Frames
    /\ UNCHANGED v3Waiting

\* variant 3, streamMJPEG: one pass of the loop while the client is
\* connected; a failed capture goes round again
V3Frame(got) ==
    /\ v3Pc = "stream"
    /\ v3Client \in up
    /\ v3Frames < VariantFrames
    /\ v3Frames' = IF got THEN v3Frames + 1 ELSE v3Frames
    /\ UNCHANGED <<v3Pc, v3Client, v3Waiting, v3Answered>>

\* variant 3, streamMJPEG: loop() is entered again while the stream client
\* is still connected
V3StreamEnd_AfterEachFrame ==
    /\ v3Pc = "stream"
    /\ v3Client' = 0
    /\ v3Pc' = "loop"
    /\ UNCHANGED <<v3Waiting, v3Answered, v3Frames>>

\* variant 3, streamMJPEG: the client is no longer connected, the loop ends,
\* handleClient breaks and stops the connection, loop() returns
V3StreamEnd ==
    /\ v3Pc = "stream"
    /\ v3Client \notin up
    /\ v3Client' = 0
    /\ v3Pc' = "loop"
    /\ UNCHANGED <<v3Waiting, v3Answered, v3Frames>>

\* variant 4, webTask: webServer.available() returned a client
V4WebPoll ==
    /\ v4WebPc = "poll"
    /\ v4WebWaiting # <<>>
    /\ v4WebClient' = Head(v4WebWaiting)
    /\ v4WebWaiting' = Tail(v4WebWaiting)
    /\ v4WebPc' = "handle"
    /\ UNCHANGED <<v4Answered, v4Led>>

\* variant 4, handleWebClient: what a header that holds the blank line is
\* taken for
V4Route(hdr) ==
    IF indexOf(hdr, <<"\r","\n","\r","\n">>) < 0 THEN "none"
    ELSE IF indexOf(hdr, <<"G","E","T"," ","/","l","e","d">>) >= 0 THEN "led"
    ELSE IF indexOf(hdr, <<"G","E","T"," ","/">>) >= 0 THEN "page"
    ELSE "none"

\* variant 4, handleLED: the level of the pin after the request
V4handleLED(hdr, pin) ==
    IF indexOf(hdr, <<"G","E","T"," ","/","l","e","d","?","s","t","a","t","e","=","1">>) >= 0 THEN HIGH
    ELSE IF indexOf(hdr, <<"G","E","T"," ","/","l","e","d","?","s","t","a","t","e","=","0">>) >= 0 THEN LOW
    ELSE pin

\* variant 4, handleWebClient: the loop ends without a complete header when
\* the peer is gone or after timeoutTime; otherwise the LED response or the
\* page is written; the connection is stopped
V4HandleWebClient ==
    /\ v4WebPc = "handle"
    /\ LET hdr == RequestOf(want[v4WebClient])
           r   == IF v4WebClient \in up THEN V4Route(hdr) ELSE "none"
       IN  /\ v4Led' = IF r = "led" THEN V4handleLED(hdr, v4Led) ELSE v4Led
           /\ v4Answered' = IF r \in {"led", "page"}
                            THEN v4Answered \cup {v4WebClient}
                            ELSE v4Answered
    /\ v4WebClient' = 0
    /\ v4WebPc' = "poll"
    /\ UNCHANGED v4WebWaiting

\* variant 4, streamTask: streamServer.available() returned a client and the
\* preamble is written to it
V4StreamPoll ==
    /\ v4StreamPc = "poll"
    /\ v4StreamWaiting # <<>>
    /\ v4StreamClient' = Head(v4StreamWaiting)
    /\ v4StreamWaiting' = Tail(v4StreamWaiting)
    /\ v4StreamPc' = "stream"
    /\ v4Frames' = 0

\* variant 4, streamTask: one pass of the inner loop
V4Frame(got) ==
    /\ v4StreamPc = "stream"
    /\ v4StreamClient \in up
    /\ v4Frames < VariantFrames
    /\ v4Frames' = IF got THEN v4Frames + 1 ELSE v4Frames
    /\ UNCHANGED <<v4StreamPc, v4StreamClient, v4StreamWaiting>>

\* variant 4, streamTask: the client is no longer connected; client.stop()
V4StreamEnd ==
    /\ v4StreamPc = "stream"
    /\ v4StreamClient \notin up
    /\ v4StreamClient' = 0
    /\ v4StreamPc' = "poll"
    /\ UNCHANGED <<v4StreamWaiting, v4Frames>>

\* a step of webTask of variant 4
V4WebStep ==
    \/ V4WebPoll
    \/ V4HandleWebClient

\* both variants idle after setup(), the rest of the device as after Init
InitVariants ==
    /\ Init
    /\ sensor = TRUE
    /\ currentSettings = startCamera(TRUE, TRUE)

NextVariants ==
    \/ \E p \in Peers : \E w \in {"stream", "page", "led", "silent"} :
           PeerConnect(p, w) /\ UNCHANGED <<webVars, streamVars, setupVars, focusVars>>
    \/ \E p \in Peers :
           PeerDisconnect(p) /\ UNCHANGED <<webVars, streamVars, setupVars, focusVars>>
    \/ V3Loop
           /\ UNCHANGED <<webVars, streamVars, setupVars, focusVars, up, want,
                          v4WebVars, v4StreamVars>>
    \/ V3HandleClient
           /\ UNCHANGED <<webVars, streamVars, setupVars, focusVars, up, want,
                          v4WebVars, v4StreamVars>>
    \/ \E got \in BOOLEAN :
           V3Frame(got)
           /\ UNCHANGED <<webVars, streamVars, setupVars, focusVars, up, want,
                          v4WebVars, v4StreamVars>>
    \/ V3StreamEnd
           /\ UNCHANGED <<webVars, streamVars, setupVars, focusVars, up, want,
                          v4WebVars, v4StreamVars>>
    \/ V4WebPoll
           /\ UNCHANGED <<webVars, streamVars, setupVars, focusVars, up, want, v3Vars,
                          v4StreamVars>>
    \/ V4HandleWebClient
           /\ UNCHANGED <<webVars, streamVars, setupVars, focusVars, up, want, v3Vars,
                          v4StreamVars>>
    \/ V4StreamPoll
           /\ UNCHANGED <<webVars, streamVars, setupVars, focusVars, up, want, v3Vars,
                          v4WebVars>>
    \/ \E got \in BOOLEAN :
           V4Frame(got)
           /\ UNCHANGED <<webVars, streamVars, setupVars, focusVars, up, want, v3Vars,
                          v4WebVars>>
    \/ V4StreamEnd
           /\ UNCHANGED <<webVars, streamVars, setupVars, focusVars, up, want, v3Vars,
                          v4WebVars>>

\* webTask of variant 4 is a task of its own, pinned to core 1, which delays
\* one tick per pass: a step of it that can be taken is eventually taken,
\* whatever streamTask does on core 0
SpecVariants ==
    /\ InitVariants
    /\ [][NextVariants]_vars
    /\ WF_vars(V4WebStep /\ UNCHANGED <<webVars, streamVars, setupVars, focusVars, up,
                                        want, v3Vars, v4StreamVars>>)

\* ------------------------------------------------------------------------
\* focusTask
\* ------------------------------------------------------------------------
\* what a status read can report: the 8-bit register, or -1 for a failed read
FWReads == {-1} \cup (0..255)

\* conversion of an int to uint8_t
AsUint8(i) == i % 256

\* "uint8_t rc = ov5640.getFWStatus();"
FocusRead(r) ==
    /\ focusPc = "read"
    /\ fwStatus' = r
    /\ focusRc' = AsUint8(r)
    /\ focusPc' = "branch"
    /\ UNCHANGED <<focusLogged, focusWaited>>

\* the branch the if chain takes for rc, a uint8_t; in rc == -1 it is
\* promoted to int, which keeps its value
FocusBranchOf(r) ==
    IF r = FW_STATUS_S_FOCUSED THEN "focused"
    ELSE IF r = FW_STATUS_S_FOCUSING THEN "focusing"
    ELSE IF r = -1 THEN "failed"
    ELSE "none"

\* the delay of the branch taken, before the regular one
FocusBranchDelay(b) ==
    IF b = "focused" THEN focusedDelay
    ELSE IF b = "focusing" THEN focusingDelay
    ELSE IF b = "failed" THEN focusFailedDelay
    ELSE 0

\* the if chain and the delays of one pass of focusTask's loop
FocusBranch ==
    /\ focusPc = "branch"
    /\ focusLogged' = (FocusBranchOf(focusRc) = "failed")
    /\ focusWaited' = FocusBranchDelay(FocusBranchOf(focusRc)) + focusCheckDelay
    /\ focusPc' = "read"
    /\ UNCHANGED <<fwStatus, focusRc>>

\* focusTask alone, after setup() has returned
InitFocus ==
    /\ Init
    /\ sensor = TRUE
    /\ currentSettings = startCamera(TRUE, TRUE)

NextFocus ==
    \/ \E r \in FWReads :
           FocusRead(r) /\ UNCHANGED <<webVars, streamVars, setupVars,
                                       variantVars>>
    \/ FocusBranch /\ UNCHANGED <<webVars, streamVars, setupVars, variantVars>>

SpecFocus == InitFocus /\ [][NextFocus]_vars

\* ------------------------------------------------------------------------
\* One request to /camera served on two connections in a row
\* ------------------------------------------------------------------------
\* requests that handleWebClient hands to handleCameraSettings
CameraRequests == {req \in Requests : Route(req) = "camera"}

\* setup() has returned and a client is about to send a /camera request,
\* twice; the request is held in inbuf
InitTwice ==
    /\ sensor \in BOOLEAN
    /\ \E psram \in BOOLEAN : currentSettings = startCamera(psram, sensor)
    /\ ledPin = LOW
    /\ webPc = "accept"
    /\ conn = "none"
    /\ conns = 0
    /\ pending = <<>>
    /\ inbuf \in CameraRequests
    /\ header = <<>>
    /\ currentLine = <<>>
    /\ elapsed = 0
    /\ out = <<>>
    /\ calls = <<>>
    /\ route = "none"
    /\ exit = "none"
    /\ pre = [settings |-> currentSettings, led |-> ledPin]
    /\ peerGone = FALSE
    /\ applied = [f \in Fields |-> {}]
    /\ StreamInit
    /\ SetupDone
    /\ RestInit

\* webTask accepts a connection and handleWebClient reads and serves the
\* request on it in one go: the request held in inbuf on the first
\* connection, the same bytes (kept in header) on the second.  out and calls
\* collect the responses and Frame Source calls of both connections; pre is
\* the state between the two.
ServeSameRequest ==
    /\ webPc = "accept"
    /\ conns < 2
    /\ conns' = conns + 1
    /\ pre' = [settings |-> currentSettings, led |-> ledPin]
    /\ \E req \in {IF conns = 0 THEN inbuf ELSE header} :
       \E r \in {ReadLoop([header |-> <<>>, currentLine |-> <<>>,
                           exit |-> "more"], req, 1, Len(req))} :
           /\ r.exit = "dispatch"
           /\ header' = r.header
           /\ currentLine' = r.currentLine
           /\ Dispatch(r.header)
    /\ UNCHANGED <<sensor, peerGone>>
    /\ UNCHANGED <<streamVars, otherVars>>

NextTwice == ServeSameRequest

SpecTwice == InitTwice /\ [][NextTwice]_vars

\* ------------------------------------------------------------------------
\* The status document as the page's loader reads it (response.json())
\* ------------------------------------------------------------------------
\* positions of the commas of s
CommaPositions(s) == {i \in 1..Len(s) : s[i] = ","}

\* s cut at its commas: where each piece starts, and where the piece that
\* starts at b ends
PieceStarts(s) == {1} \cup {c + 1 : c \in CommaPositions(s)}

PieceEnd(s, b) ==
    LET stops == {c \in CommaPositions(s) \cup {Len(s) + 1} : c >= b}
    IN  (CHOOSE c \in stops : \A d \in stops : c <= d) - 1

\* the entry "<field>":<value> of a flat document
JsonPair(f, v) == <<"\"">> \o FieldText[f] \o <<"\"",":">> \o String(v)

\* number of comma-separated entries of the document body that are exactly
\* the entry of field f with value v
EntryCount(body, f, v) ==
    LET s == SubSeq(body, 2, Len(body) - 1)
    IN  Cardinality({b \in PieceStarts(s) :
                        SubSeq(s, b, PieceEnd(s, b)) = JsonPair(f, v)})

\* body is "{" entries "}" with one entry per field, separated by commas,
\* each field once with its value in settings
IsFlatDocument(body, settings) ==
    /\ Len(body) >= 2
    /\ body[1] = "{"
    /\ body[Len(body)] = "}"
    /\ Cardinality(PieceStarts(SubSeq(body, 2, Len(body) - 1)))
           = Cardinality(Fields)
    /\ \A f \in Fields : EntryCount(body, f, settings[f]) = 1

\* ------------------------------------------------------------------------
\* Claims
\* ------------------------------------------------------------------------
\* C1 (as claimed; the status branch of the code leaves out quality and
\* framesize): once the setter of a field has returned 0 for a value of the
\* field's declared domain, a GET /camera/status response shows that field
\* with exactly that value, for every one of the 18 fields.
C1_StatusShowsAppliedValue ==
    (exit = "response" /\ header = StatusRequest) =>
        \A f \in Fields : \A v \in applied[f] :
            InDeclared(f, v) =>
                /\ Len(out) = 1
                /\ EntryCount(out[1].body, f, v) >= 1

\* C2 (as claimed; the code repeats two keys, omits two fields and a comma):
\* the body of a GET /camera/status response is a flat document holding each
\* of the 18 fields exactly once with its value in currentSettings, entries
\* separated by commas.
C2_StatusIsFlatDocument ==
    (exit = "response" /\ header = StatusRequest /\ sensor) =>
        /\ Len(out) = 1
        /\ IsFlatDocument(out[1].body, currentSettings)

\* C3 (as claimed; the code accepts every gainceiling in 2..128): an update
\* of a table field with a value outside the field's declared domain is
\* answered with body -1 and leaves currentSettings as it was.
C3_OutOfRangeRejected ==
    (exit = "response" /\ route = "camera" /\ sensor) =>
        \A f \in Fields : \A v \in ProbeValues(f) :
            (~InDeclared(f, v) /\ header = UpdateRequest(f, v)) =>
                /\ Len(out) = 1
                /\ out[1].body = <<"-","1">>
                /\ currentSettings = pre.settings

\* C4 (as claimed; fails on gainceiling values between the multipliers, see
\* C3): a /camera request with an unknown parameter name, or with no query,
\* is answered -1, changes no field and calls no sensor setter; a known name
\* with a value outside its declared domain calls no sensor setter either.
C4_InvalidNeverReachesSensor ==
    LET UnknownNameRequests ==
            {Request(<<"G","E","T">>, <<"/","c","a","m","e","r","a">>, <<>>),
             Request(<<"G","E","T">>, <<"/","c","a","m","e","r","a","?","b","o","g","u","s","=","3">>, <<>>)}
        NoSetterCalled ==
            \A i \in 1..Len(calls) : calls[i].fn = "esp_camera_sensor_get"
    IN
    (exit = "response" /\ route = "camera" /\ sensor) =>
        /\ header \in UnknownNameRequests =>
                /\ Len(out) = 1
                /\ out[1].body = <<"-","1">>
                /\ currentSettings = pre.settings
                /\ NoSetterCalled
        /\ \A f \in Fields : \A v \in ProbeValues(f) :
                (~InDeclared(f, v) /\ header = UpdateRequest(f, v)) =>
                    NoSetterCalled

C6_UpdateChangesOnlyItsField ==
    (exit = "response" /\ route = "camera") =>
        \A f \in Fields : \A v \in ProbeValues(f) :
            (header = UpdateRequest(f, v) /\ Len(out) = 1
                /\ out[1].body = <<"0">>) =>
                /\ \A g \in Fields \ {f} :
                       currentSettings[g] = pre.settings[g]
                /\ ledPin = pre.led

\* C6 witness: with the LED high, saturation=2 was applied: saturation
\* changed from 0 to 2
C6_Witness ==
    /\ exit = "response"
    /\ header = UpdateRequest("saturation", 2)
    /\ out[1].body = <<"0">>
    /\ pre.led = HIGH
    /\ pre.settings["saturation"] = 0
    /\ currentSettings["saturation"] = 2

\* C7 (as claimed; the 500 response of the settings handler has no
\* Content-Length): every response written on the web port to a client that
\* stayed connected carries Content-Length equal to the length of the body
\* sent, and Connection: close.
C7_EveryResponseHasLength ==
    (webPc = "accept" /\ ~peerGone) =>
        \A i \in 1..Len(out) :
            /\ out[i].hasContentLength
            /\ out[i].contentLength = BodyLength(out[i])
            /\ out[i].connectionClose

\* C8 (as claimed; the handler asks for the sensor before it looks at the
\* path): GET /camera/status is answered 200 with the serialized
\* currentSettings whether or not a sensor is available, and no Frame Source
\* function is called while serving it.
C8_StatusIndependentOfSensor ==
    (exit = "response" /\ header = StatusRequest) =>
        /\ Len(out) = 1
        /\ out[1].status = 200
        /\ out[1].body = StatusJson(currentSettings)
        /\ calls = <<>>

\* C9 (as claimed; the code answers only headers that contain "GET /"): a
\* connection whose request headers completed got exactly one response
\* before it was closed, whatever the method and path, and the static page
\* when the path starts with neither /led nor /camera.
C9_OneResponsePerRequest ==
    LET afterMethod == substringFrom(header, indexOf(header, <<" ">>) + 1)
        target == substring(afterMethod, 0, indexOf(afterMethod, <<" ">>))
    IN
    (exit \in {"response", "noroute"}) =>
        /\ Len(out) = 1
        /\ (/\ ~OccursAt(target, <<"/","l","e","d">>, 0)
            /\ ~OccursAt(target, <<"/","c","a","m","e","r","a">>, 0)) =>
               out[1].contentType = "text/html"

\* C10: a header that has grown past maxRequestSize bytes belongs to a
\* connection that was closed at that very byte (the header is one byte over
\* the cap), with nothing written, no handler invoked, no Frame Source call,
\* and the LED and currentSettings as before the connection.
C10_OversizeAborted ==
    (Len(header) > maxRequestSize) =>
        /\ exit = "cap"
        /\ conn = "none"
        /\ Len(header) = maxRequestSize + 1
        /\ out = <<>>
        /\ route = "none"
        /\ calls = <<>>
        /\ ledPin = pre.led
        /\ currentSettings = pre.settings

\* C10 witness: a complete GET /led?state=1 request of maxRequestSize + 1
\* bytes was aborted at its last byte with the LED still low
C10_Witness ==
    /\ exit = "cap"
    /\ header = PaddedRequest(<<"/","l","e","d","?","s","t","a","t","e","=","1">>, maxRequestSize + 1)
    /\ out = <<>>
    /\ ledPin = LOW

\* C11: once the timeout window has passed with handleWebClient still in its
\* read loop (no blank line seen), nothing more is read, no response byte is
\* written, no handler is invoked, the LED and currentSettings stay as they
\* are, and the only step the web context takes closes the connection.
C11_TimeoutClosesUnanswered ==
    [][(webPc = "read" /\ elapsed > timeoutTime) =>
          /\ header' = header
          /\ out' = <<>>
          /\ calls' = <<>>
          /\ route' = "none"
          /\ ledPin' = ledPin
          /\ currentSettings' = currentSettings
          /\ webPc' \in {"read", "accept"}
          /\ webPc' = "accept" => (conn' = "none" /\ exit' = "timeout")
                                      \/ (conn' = "none" /\ exit' = "disconnect"
                                             /\ conn # "connected")]_vars

\* C11 witness: the first piece of a GET /led?state=1 request arrived, the
\* rest did not arrive in time; the connection was closed on the timeout
\* with nothing written and the LED low
C11_Witness ==
    /\ exit = "timeout"
    /\ conn = "none"
    /\ header = SubSeq(Request(<<"G","E","T">>, <<"/","l","e","d","?","s","t","a","t","e","=","1">>, <<>>), 1, FirstChunk)
    /\ out = <<>>
    /\ ledPin = LOW
    /\ ~peerGone

\* C12 (as claimed; fails through the token matching of C13 and the
\* header-wide matching of C19): the LED is low after boot; a completed
\* request whose request line is GET /led?state=b, b in {0,1}, leaves the LED
\* at b; a completed request whose request line is GET /led?state=2 is
\* answered with the level the LED has and leaves it; and no other step
\* changes the LED.  Together: every state=2 query returns the b of the last
\* state=0/1 request, or 0 when there was none.
C12_LedQueryReturnsLastSet ==
    /\ ledPin = LOW
    /\ [][LET Completed == exit = "none" /\ exit' \in {"response", "noroute"}
              IsSet(hdr, b) ==
                  OccursAt(hdr, <<"G","E","T"," ","/","l","e","d","?","s","t","a","t","e","=">> \o String(b) \o <<" ">>, 0)
          IN  /\ \A b \in {LOW, HIGH} :
                    (Completed /\ IsSet(header', b)) => ledPin' = b
              /\ (Completed /\ IsSet(header', 2)) =>
                    /\ Len(out') = 1
                    /\ out'[1].body = String(ledPin)
                    /\ ledPin' = ledPin
              /\ ledPin' # ledPin =>
                    /\ Completed
                    /\ \E b \in {LOW, HIGH} : IsSet(header', b)]_vars

\* C13 (as claimed; the code looks for the text "GET /led?state=" followed by
\* 1, 0 or 2 and never for the end of the value): a GET request whose path is
\* /led and whose state value is not exactly 0, 1 or 2 (absent, or a longer
\* token) is answered with body -1 and leaves the LED as it was.
C13_LedRejectsOtherTokens ==
    LET afterMethod == substringFrom(header, indexOf(header, <<" ">>) + 1)
        target == substring(afterMethod, 0, indexOf(afterMethod, <<" ">>))
        Recognized == {<<"/","l","e","d","?","s","t","a","t","e","=","0">>, <<"/","l","e","d","?","s","t","a","t","e","=","1">>, <<"/","l","e","d","?","s","t","a","t","e","=","2">>}
    IN
    (exit = "response" /\ OccursAt(header, <<"G","E","T"," ","/","l","e","d">>, 0)
        /\ target \notin Recognized) =>
        /\ Len(out) = 1
        /\ out[1].body = <<"-","1">>
        /\ ledPin = pre.led

\* C14 (as claimed): when the same valid update request (known name, value
\* in the declared domain) has been served twice in a row, the two response
\* bodies are equal and currentSettings is what it was after the first.
C14_SameRequestTwice ==
    (conns = 2 /\ \E f \in Fields : \E v \in ProbeValues(f) :
                      InDeclared(f, v) /\ header = UpdateRequest(f, v)) =>
        /\ Len(out) = 2
        /\ out[1].body = out[2].body
        /\ currentSettings = pre.settings

\* C14 (amended): the same holds provided the sensor setter returned the
\* same code on both calls; the code reports whatever the sensor answers.
C14_SameRequestTwiceSameCode ==
    (conns = 2 /\ (Len(calls) = 4 => calls[2].result = calls[4].result)
        /\ \E f \in Fields : \E v \in ProbeValues(f) :
              InDeclared(f, v) /\ header = UpdateRequest(f, v)) =>
        /\ Len(out) = 2
        /\ out[1].body = out[2].body
        /\ currentSettings = pre.settings

\* C14 witness: brightness=2 was served twice, the setter returned 0 both
\* times, both bodies are 0 and brightness is 2
C14_Witness ==
    /\ conns = 2
    /\ header = UpdateRequest("brightness", 2)
    /\ Len(calls) = 4
    /\ calls[2] = SetterCall("brightness", 2, 0)
    /\ calls[4] = SetterCall("brightness", 2, 0)
    /\ out[1].body = <<"0">>
    /\ out[2].body = <<"0">>
    /\ currentSettings["brightness"] = 2

\* C17: the static page response carries a Content-Length equal to the sum of
\* the lengths of HOMEPAGE_PART1..4; when the client stayed connected the
\* body written is those four parts in order and nothing else, which is
\* exactly Content-Length bytes.
C17_PageLengthAndBody ==
    (exit = "response" /\ route = "page") =>
        /\ Len(out) = 1
        /\ out[1].status = 200
        /\ out[1].hasContentLength
        /\ out[1].contentLength = HomepageLength[1] + HomepageLength[2]
                                    + HomepageLength[3] + HomepageLength[4]
        /\ ~peerGone =>
              /\ out[1].body = <<>>
              /\ out[1].parts = <<1, 2, 3, 4>>
              /\ BodyLength(out[1]) = out[1].contentLength

\* C17 witness: GET / was served to a client that stayed connected and all
\* four parts were written
C17_Witness ==
    /\ exit = "response"
    /\ route = "page"
    /\ header = Request(<<"G","E","T">>, <<"/">>, <<>>)
    /\ ~peerGone
    /\ out[1].parts = <<1, 2, 3, 4>>
    /\ out[1].contentLength = 16792

\* C18 (as claimed; startCamera stores the defaults only inside
\* "if (s != NULL)"): in every state after boot, each field whose setter has
\* never returned 0 since boot holds its documented default, framesize
\* holding the configured frame size; also when no sensor is available.
C18_DefaultsUntilUpdated ==
    LET Documented(frame_size) ==
            [brightness |-> 0, contrast |-> 0, saturation |-> 0,
             wb_mode |-> 0, whitebal |-> 1, awb_gain |-> 1,
             exposure_ctrl |-> 1, aec2 |-> 1, ae_level |-> 0,
             aec_value |-> 1000, raw_gma |-> 1, lenc |-> 1, dcw |-> 0,
             gainceiling |-> 128, special_effect |-> 0, colorbar |-> 0,
             quality |-> 12, framesize |-> frame_size]
    IN  \E frame_size \in {FRAMESIZE_SVGA, FRAMESIZE_UXGA} :
            \A f \in Fields :
                applied[f] = {} =>
                    currentSettings[f] = Documented(frame_size)[f]

\* C19 (as claimed; the code searches the whole header for "GET /led",
\* "GET /camera" and "GET /"): the handler that served a completed request
\* is the LED handler iff the path of the request line starts with /led, else
\* the settings handler iff it starts with /camera, else the static page;
\* and a request whose path does not start with /led leaves the LED alone.
C19_RoutingByRequestLine ==
    LET afterMethod == substringFrom(header, indexOf(header, <<" ">>) + 1)
        target == substring(afterMethod, 0, indexOf(afterMethod, <<" ">>))
        byPath == IF OccursAt(target, <<"/","l","e","d">>, 0) THEN "led"
                  ELSE IF OccursAt(target, <<"/","c","a","m","e","r","a">>, 0) THEN "camera"
                  ELSE "page"
    IN
    (exit \in {"response", "noroute"}) =>
        /\ route = byPath
        /\ byPath # "led" => ledPin = pre.led

\* C15: the streaming context holds a frame buffer only between
\* esp_camera_fb_get and esp_camera_fb_return; once the stream client is
\* gone nothing more is written for the frame; and when the client is gone
\* while a frame is being written, the context eventually is back at polling
\* streamServer with the connection closed and no frame buffer held.
C15_StreamDisconnectMidFrame ==
    /\ [](fbHeld => streamPc \in {"gotfb", "chunk", "trailer", "return"})
    /\ [][streamConn = "disconnected" => Len(frame') <= Len(frame)]_vars
    /\ (streamConn = "disconnected"
           /\ streamPc \in {"gotfb", "chunk", "trailer"})
          ~> (streamPc = "poll" /\ streamConn = "none" /\ ~fbHeld)

\* C15 witness: a frame of two chunks was cut after its first chunk by the
\* client leaving; streamTask is back at polling, the frame buffer returned
C15_Witness ==
    /\ streamPc = "poll"
    /\ streamConn = "none"
    /\ frame = <<PartHeader(2 * chunkSize), PartData(0, chunkSize)>>
    /\ remaining = chunkSize
    /\ ~fbHeld

C20_FrameSourceExclusive ==
    [][(calls' # calls /\ Len(calls') = 2) => ~fbHeld]_vars

\* C21: frame buffers are balanced in streamTask.  esp_camera_fb_get is
\* called only while no frame buffer is held, so at most one is held; a
\* held buffer is given up by esp_camera_fb_return and by nothing else;
\* the connection is closed only with no buffer held; and every buffer
\* obtained is returned, whether its frame was sent in full, cut short by
\* the client leaving, or not sent at all.
C21_FrameBuffersBalanced ==
    /\ [][/\ (streamPc = "capture" /\ streamPc' # "capture") => ~fbHeld
          /\ (fbHeld /\ ~fbHeld')
                 => (streamPc = "return" /\ streamPc' = "delay")
          /\ (streamConn # "none" /\ streamConn' = "none") => ~fbHeld
          /\ (streamPc = "return" /\ streamPc' # "return") => fbHeld]_vars
    /\ (fbHeld ~> ~fbHeld)

\* C21 witness: the client left after the part header and before the first
\* chunk; the frame buffer of the frame cut short has been returned
C21_Witness ==
    /\ streamPc = "delay"
    /\ streamConn = "disconnected"
    /\ Len(frame) = 1
    /\ ~fbHeld

\* C22: whenever webTask is back at its accept point no web connection is
\* open: each way handleWebClient ends (a response written, the size cap,
\* the timeout, the client gone, no route matched) has closed the
\* connection with client.stop().
C22_EveryExitCloses ==
    webPc = "accept" =>
        /\ conn = "none"
        /\ conns > 0 =>
               exit \in {"response", "cap", "timeout", "disconnect",
                         "noroute"}

\* C22 witness: a request that no route matched was dropped and its
\* connection closed
C22_Witness ==
    /\ webPc = "accept"
    /\ exit = "noroute"
    /\ conn = "none"
    /\ out = <<>>

\* C23: every accepted web connection is eventually closed with webTask back
\* at its accept point, whatever the client does: also when it never sends a
\* byte, and when it sends bytes without ever sending a blank line.
C23_AcceptedEventuallyClosed ==
    (webPc # "accept") ~> (webPc = "accept" /\ conn = "none")

\* C23 witness: a client that sent nothing in 2000 ms was closed by timeout
C23_Witness ==
    /\ webPc = "accept"
    /\ exit = "timeout"
    /\ header = <<>>
    /\ ~peerGone

\* the text a request gives as the value of its first parameter: what
\* follows the first "=" of param, up to the next "&" if there is one
ValueTextOf(param) ==
    LET t == substringFrom(param, indexOf(param, <<"=">>) + 1)
    IN  IF indexOf(t, <<"&">>) >= 0 THEN substring(t, 0, indexOf(t, <<"&">>))
        ELSE t

\* s is an integer written out: an optional sign, then digits and no more
IsNumber(s) ==
    LET d == IF s # <<>> /\ s[1] \in {"-", "+"} THEN Tail(s) ELSE s
    IN  d # <<>> /\ \A i \in 1..Len(d) : IsDigit(d[i])

\* s begins with an integer: an optional sign, then a digit
StartsWithNumber(s) ==
    LET d == IF s # <<>> /\ s[1] \in {"-", "+"} THEN Tail(s) ELSE s
    IN  d # <<>> /\ IsDigit(d[1])

\* the request at hand was handled as the update name=v: the setter of name
\* called with v, its code the body, and v stored when the code is 0
ProcessedAs(name, v) ==
    /\ Len(calls) = 2
    /\ calls[2].fn = name
    /\ calls[2].arg = v
    /\ out = <<UpdateResponse(calls[2].result)>>
    /\ calls[2].result = 0 => currentSettings[name] = v

\* the connection at hand carried GET /camera?<name>=<text> for a field
\* whose accepted range contains 0, and was answered with a sensor present
UpdateOfZeroableField(name) ==
    /\ exit = "response"
    /\ route = "camera"
    /\ sensor
    /\ indexOf(header, <<"G","E","T"," ","/","c","a","m","e","r","a","?">>) = 0
    /\ indexOf(QueryParam(header), <<"=">>) >= 0
    /\ QueryName(QueryParam(header)) = FieldText[name]
    /\ ChainMatch(FieldText[name], 0) # 0

TwoParameterRequest == Request(<<"G","E","T">>, <<"/","c","a","m","e","r","a","?","d","c","w","=","1","&","l","e","n","c","=","0">>, <<>>)

\* C25: a request GET /camera?a=x&b=y is handled by its first parameter
\* only.  For GET /camera?dcw=1&lenc=0: if a setter is called it is set_dcw
\* with 1, dcw becomes 1 when the setter returns 0, and no other field of
\* currentSettings changes: lenc keeps the value it had.
C25_OnlyFirstParameter ==
    (exit = "response" /\ route = "camera" /\ header = TwoParameterRequest)
        => /\ \A g \in Fields \ {"dcw"} :
                  currentSettings[g] = pre.settings[g]
           /\ Len(calls) <= 2
           /\ Len(calls) = 2 =>
                  /\ calls[2].fn = "dcw"
                  /\ calls[2].arg = 1
                  /\ calls[2].result = 0 => currentSettings["dcw"] = 1

\* C25 witness: dcw=1&lenc=0 arrived with lenc at 1 and dcw at 0; set_dcw
\* accepted 1, dcw is 1 and lenc is still 1
C25_Witness ==
    /\ exit = "response"
    /\ header = TwoParameterRequest
    /\ pre.settings["lenc"] = 1
    /\ pre.settings["dcw"] = 0
    /\ calls = <<SensorGet(TRUE), SetterCall("dcw", 1, 0)>>
    /\ currentSettings["dcw"] = 1
    /\ currentSettings["lenc"] = 1

\* what has been written of a part is well formed: the --frame header
\* first, then data taken from the frame buffer in order without a gap and
\* within the length the header announced, then at most the line
\* terminator, as the last thing written
IsPartPrefix(written) ==
    written # <<>> =>
        /\ written[1].part = "head"
        /\ \A i \in 2..Len(written) :
               \/ /\ written[i].part = "data"
                  /\ written[i].at =
                         IF i = 2 THEN 0
                         ELSE written[i - 1].at + written[i - 1].n
                  /\ written[i].at + written[i].n <= written[1].n
               \/ /\ written[i].part = "tail"
                  /\ i = Len(written)

\* C26: on each streaming connection the response preamble is written once,
\* when the connection is accepted and so before any part; whatever is
\* written afterwards is written while the frame buffer captured in the
\* same loop iteration is held and makes up one part: a --frame header
\* followed only by bytes of that buffer.
C26_PreambleOncePartsFromOwnFrame ==
    /\ [](streamConn # "none" => preamble = 1)
    /\ [](IsPartPrefix(frame))
    /\ [][/\ preamble' # preamble => (streamPc = "poll" /\ streamPc' = "loop")
          /\ (streamPc = "capture" /\ streamPc' # "capture") => frame' = <<>>
          /\ (frame' # frame /\ frame' # <<>>) =>
                 /\ fbHeld /\ fbHeld'
                 /\ preamble = 1
                 /\ streamConn = "connected"]_vars

\* C26 witness: on a connection with its one preamble a second part is being
\* written: the frame loop has come round (the 50 ms delay was taken) and
\* the header and first chunk of the frame at hand are out
C26_Witness ==
    /\ preamble = 1
    /\ streamCounter = 2
    /\ fbHeld
    /\ frame = <<PartHeader(chunkSize + 1), PartData(0, chunkSize)>>

\* number of frame bytes among the first k things written for a part
RECURSIVE DataBytes(_, _)
DataBytes(written, k) ==
    IF k = 0 THEN 0
    ELSE DataBytes(written, k - 1)
             + (IF written[k].part = "data" THEN written[k].n ELSE 0)

\* C27: a part whose line terminator was written (the client was connected
\* at every check) has a header announcing the length L of the frame and a
\* body of chunks of 1 to 4096 bytes each whose sizes sum to exactly L, the
\* terminator being the one thing after them; remaining never goes below 0
\* and ends at 0, pos never passes the end of the buffer, and nothing is
\* written at a moment when the client is gone.
C27_ChunksSumToLength ==
    /\ [](/\ remaining >= 0
          /\ pos >= 0
          /\ frame # <<>> =>
                 /\ frame[1] = PartHeader(frame[1].n)
                 /\ frame[1].n \in FrameLengths
                 /\ pos + remaining = frame[1].n
                 /\ DataBytes(frame, Len(frame)) = pos
                 /\ \A i \in 2..Len(frame) :
                        frame[i].part = "data" => frame[i].n \in 1..chunkSize
          /\ (frame # <<>> /\ frame[Len(frame)].part = "tail") =>
                 /\ remaining = 0
                 /\ DataBytes(frame, Len(frame)) = frame[1].n
                 /\ \A i \in 2..(Len(frame) - 1) : frame[i].part = "data")
    /\ [][/\ Len(frame') > Len(frame) => streamConn = "connected"
          /\ (streamPc = "trailer" /\ streamPc' = "return"
                 /\ streamConn = "connected")
                 => (remaining = 0
                        /\ frame' = Append(frame, PartEnd(frame[1].n)))]_vars

\* C27 witness: a frame of 4097 bytes went out whole: header, a chunk of 4096
\* bytes, a chunk of 1 byte, line terminator
C27_Witness ==
    /\ streamPc = "return"
    /\ frame = <<PartHeader(chunkSize + 1), PartData(0, chunkSize),
                 PartData(chunkSize, 1), PartEnd(chunkSize + 1)>>
    /\ remaining = 0
    /\ pos = chunkSize + 1

\* C28: a loop iteration in which no frame buffer is obtained writes
\* nothing and goes on to the delay with the connection as it was;
\* streamTask closes a connection only when the client is gone; and after
\* such an iteration, with the client still there, the capture is tried
\* again.
C28_CaptureFailureRetried ==
    /\ [][/\ (streamPc = "capture" /\ streamPc' # "capture" /\ ~fbHeld')
                 => /\ streamPc' = "delay"
                    /\ frame' = <<>>
                    /\ streamConn' = streamConn
          /\ (streamPc \in {"delay", "loop"} /\ frame = <<>>)
                 => frame' = <<>>
          /\ (streamConn # "none" /\ streamConn' = "none")
                 => streamConn = "disconnected"]_vars
    /\ (streamPc = "delay" /\ frame = <<>> /\ streamConn = "connected")
          ~> (streamPc = "capture" \/ streamConn # "connected")

\* C28 witness: the first iteration got no frame and wrote nothing; after
\* the 50 ms delay, on the same connection, the second capture is at hand
C28_Witness ==
    /\ streamPc = "capture"
    /\ streamConn = "connected"
    /\ streamCounter = 1
    /\ paused = xDelay
    /\ frame = <<>>

\* C29 (as claimed; fails when an iteration transmits no frame): the 50 ms
\* delay follows every loop iteration, and the 500 ms cooling delay is added
\* exactly when 100 frames have been transmitted since the last cooling
\* delay (since the start, for the first): the loop has come round 100
\* times and each of these iterations wrote a whole frame.
C29_CoolingEveryHundredFrames ==
    [][(streamPc = "delay" /\ streamPc' = "loop") =>
           /\ paused' \in {xDelay, xDelay + coolingDelay}
           /\ streamCounter = coolingEvery => paused' = xDelay + coolingDelay
           /\ paused' = xDelay + coolingDelay =>
                  (streamCounter = coolingEvery /\ ~skipped)]_vars

\* C30 (as claimed; fails through the token matching of C13 and the
\* header-wide matching of C19): the level of the LED pin changes only in a
\* step in which handleLED answers a request whose request line is
\* GET /led?state=0 or GET /led?state=1, and then it becomes that state; no
\* other request and no other step changes it.
C30_LedChangesOnlyByLedRequest ==
    [][ledPin' # ledPin =>
          LET afterMethod == substringFrom(header', indexOf(header', <<" ">>) + 1)
              target == substring(afterMethod, 0, indexOf(afterMethod, <<" ">>))
          IN  /\ route' = "led"
              /\ exit = "none" /\ exit' = "response"
              /\ OccursAt(header', <<"G","E","T"," ">>, 0)
              /\ target \in {<<"/","l","e","d","?","s","t","a","t","e","=","0">>, <<"/","l","e","d","?","s","t","a","t","e","=","1">>}
              /\ target = <<"/","l","e","d","?","s","t","a","t","e","=">> \o String(ledPin')]_vars

\* C31: no step of streamTask changes a field of currentSettings, and a
\* step that changes currentSettings is the settings handler answering a
\* GET /camera?<name>=<value> update whose setter returned 0, in the web
\* context; it changes the one field the setter was called for.
C31_StreamLeavesSettings ==
    [][/\ streamVars' # streamVars => currentSettings' = currentSettings
       /\ currentSettings' # currentSettings =>
              /\ streamVars' = streamVars
              /\ route' = "camera"
              /\ exit = "none" /\ exit' = "response"
              /\ indexOf(header', <<"G","E","T"," ","/","c","a","m","e","r","a","?">>) >= 0
              /\ Len(calls') = 2
              /\ calls'[2].result = 0
              /\ \A g \in Fields \ {calls'[2].fn} :
                     currentSettings'[g] = currentSettings[g]]_vars

\* C31 witness: quality was set to 63 by the web context while streamTask
\* holds the frame buffer of its first frame and is writing it
C31_Witness ==
    /\ currentSettings["quality"] = 63
    /\ exit = "response"
    /\ fbHeld
    /\ streamPc = "chunk"
    /\ Len(frame) = 2

\* the fields a status response holds
StatusFields == {StatusEntries[i].field : i \in 1..Len(StatusEntries)}

C33_NoServiceWithoutLinkAndCamera ==
    /\ []((\/ listening
           \/ conns > 0
           \/ webPc # "accept"
           \/ conn # "none"
           \/ streamConn # "none"
           \/ streamPc # "poll")
              => (setupPc = "done" /\ joined # 0 /\ cameraOk))
    /\ [][/\ setupPc = "halted" => (setupPc' = "halted" /\ ~listening')
          /\ setupPc' = "halted" => ~cameraOk'
          /\ (setupPc' = "restart" /\ setupPc # "restart") =>
                 (network > wifiNetworkCount /\ link = 0 /\ ~listening)
          /\ <<webPc, conn, conns, streamVars>>'
                 # <<webPc, conn, conns, streamVars>> => setupPc = "done"]_vars

\* C33 witness: after a restart the second network was joined, the camera
\* came up, and a connection is open on each port
C33_Witness ==
    /\ setupPc = "done"
    /\ resetReason = "sw"
    /\ joined = 2
    /\ cameraOk
    /\ conn = "connected"
    /\ streamConn = "connected"

\* C35 (as claimed): connectToWiFi returns only at a moment when the link is
\* connected, and the network it returns on is the first network that
\* connected since the chip came up.
C35_ReturnsOnFirstConnected ==
    [][(setupPc = "check" /\ setupPc' = "camera")
          => (link # 0 /\ joined' = firstUp)]_vars

\* C35 (amended): connectToWiFi tries the networks in array order, a network only
\* after every one before it was polled and found unconnected; it sleeps at
\* most 20 times for one network; it returns only at a moment when the link
\* is connected, on the network it was then trying (a network that connected
\* and was lost again before that look is passed over); it restarts the device
\* only with all networks tried and the link down; and it always ends, by
\* returning or by restarting.
C35_WifiConnectsOrRestarts ==
    /\ [](attempt \in 0..maxAttempts /\ network \in 1..(wifiNetworkCount + 1))
    /\ [][/\ (setupPc # "restart" /\ network' # network)
                 => (network' = network + 1 /\ setupPc = "check" /\ link = 0)
          /\ (setupPc = "check" /\ setupPc' = "camera")
                 => (link # 0 /\ link = network /\ joined' = network)
          /\ setupPc' = "camera" => setupPc \in {"check", "camera"}
          /\ (setupPc' = "restart" /\ setupPc # "restart")
                 => (network = wifiNetworkCount + 1 /\ link = 0)
          /\ (setupPc = "poll" /\ setupPc' = "check")
                 => (link # 0 \/ attempt = maxAttempts)]_vars
    /\ (setupPc \in {"begin", "poll", "check"})
          ~> (setupPc \in {"camera", "restart"})

\* C35 witness: the first two networks were polled 20 times each in vain,
\* the third connected at its 20th poll and connectToWiFi returned on it
C35_Witness ==
    /\ setupPc = "camera"
    /\ joined = 3
    /\ attempt = maxAttempts
    /\ link = 3
    /\ resetReason = "poweron"

\* C34: in variant 3, while streamMJPEG runs for a client that is still
\* connected, no other connection is accepted and no other peer is answered;
\* in variant 4, while a client is being streamed to, a connected peer that
\* came for the page or the LED is eventually answered
C34_StreamBlocksVariant3NotVariant4 ==
    /\ [][(v3Pc = "stream" /\ v3Client \in up)
             => /\ v3Pc' = "stream"
                /\ v3Client' = v3Client
                /\ v3Waiting' \in {v3Waiting} \cup
                                  {Append(v3Waiting, p) : p \in Peers}
                /\ v3Answered' = v3Answered]_vars
    /\ \A p \in Peers :
           (/\ v4StreamPc = "stream"
            /\ v4StreamClient \in up
            /\ p \in up
            /\ want[p] \in {"page", "led"})
               ~> (p \in v4Answered \/ p \notin up)

\* both variants stream to the same connected peer and have written a part;
\* a second peer that came for the LED waits in variant 3 and has been
\* answered by variant 4, whose LED is on
C34_Witness ==
    \E s \in Peers : \E p \in Peers :
        /\ s \in up
        /\ p \in up
        /\ v3Pc = "stream" /\ v3Client = s /\ v3Frames > 0
        /\ v4StreamPc = "stream" /\ v4StreamClient = s /\ v4Frames > 0
        /\ want[p] = "led"
        /\ v3Waiting = <<p>>
        /\ p \notin v3Answered
        /\ p \in v4Answered
        /\ v4Led = HIGH

\* C36: once startCamera has stored the defaults (a sensor was found), every
\* field of currentSettings holds a value of its declared domain
C36_SettingsInDeclaredDomain ==
    sensor => \A f \in Fields : InDeclared(f, currentSettings[f])

\* C37: each port serves one connection at a time.  Where streamTask polls
\* streamServer no streaming connection is open, a streaming connection
\* comes up only there, and the preamble is written only there; where
\* webTask polls webServer no web connection is open, and a web connection
\* comes up only there
C37_OneConnectionPerPort ==
    /\ [](streamPc = "poll" => streamConn = "none")
    /\ [](webPc = "accept" => conn = "none")
    /\ [][/\ (streamConn' = "connected" /\ streamConn # "connected")
                 => (streamPc = "poll" /\ streamConn = "none")
          /\ preamble' # preamble
                 => (streamPc = "poll" /\ streamConn = "none")
          /\ (conn' = "connected" /\ conn # "connected")
                 => (webPc = "accept" /\ conn = "none")
          /\ conns' # conns
                 => (webPc = "accept" /\ conn = "none")]_vars

\* C37 witness: both ports serve a connection, the web port its second one,
\* accepted after handleWebClient closed the first
C37_Witness ==
    /\ streamConn = "connected"
    /\ streamPc = "loop"
    /\ preamble = 1
    /\ conn = "connected"
    /\ webPc = "read"
    /\ conns = 2

C39_FocusFailureLoggedAndDelayed ==
    [][(focusPc = "branch" /\ focusPc' = "read")
           => /\ fwStatus = -1
                  => (focusLogged' /\ focusWaited' = focusFailedDelay
                                                      + focusCheckDelay)
              /\ FocusBranchOf(focusRc) = FocusBranchOf(fwStatus)]_vars

====
